---------------------------- MODULE Spec2Model ----------------------------
(***************************************************************************)
(* A model of fid-rs: the Fully Indexable Dictionary (bit vector with      *)
(* access / rank / select), its raw bit vector, its chunk / block rank     *)
(* directory, the popcount table, the bit string parser and the builder.   *)
(***************************************************************************)
EXTENDS Integers, Sequences, FiniteSets, TLC

(***************************************************************************)
(* Bounds of the model.                                                    *)
(***************************************************************************)
\* Longest bit sequence a Fid is built from.  From 32 bits on, the chunk
\* size (25) is no multiple of the block size (2) and there are two chunks.
MaxLen == 33
\* Bit sequences are a seed of at most this length, repeated up to the
\* wanted length (every sequence of at most MaxSeedLen bits is included).
MaxSeedLen == 3
\* Longest text given to BitString::new / Fid::from(&str).
MaxStrLen == 9
\* Texts are a seed of at most this many characters, repeated.
MaxStrSeedLen == 2
\* Largest length given to FidBuilder::from_length (from 8 bits on, an added
\* bit starts a second byte).
MaxBuilderLen == 8
\* Longest text a FidBuilder is seeded with (every text of '0', '1', '_' and
\* 'x' up to this length is included).
MaxBuilderStrLen == 3
\* Most calls that change one builder: add_bit calls plus set_bit calls of
\* distinct positions.
MaxBuilderCalls == 3
\* Most calls of next() on an iterator that has already returned every bit.
MaxNextPastEnd == 2
\* Longest LBS (LOUDS bit string) given to LoudsBuilder::from_bit_string:
\* every text of '0' and '1' up to this length, as it is and with one '_'
\* put in at any place.  11 bits hold the trees of up to 5 nodes.
MaxLbsLen == 11

\* The longest raw bit vector made on its own: two bytes, so that copy_sub
\* takes two turns of its loop from an unaligned start.
MaxRawLen == 10

\* The widest PopcountTable asked for: widths below, at and above 64.
MaxTableWidth == 66

(***************************************************************************)
(* Machine arithmetic: u8 / u16 / u32 / u64 values are naturals; shifts    *)
(* and bitwise operators are computed on their binary digits.              *)
(***************************************************************************)
RECURSIVE Pow2(_)
Pow2(k) == IF k <= 0 THEN 1 ELSE 2 * Pow2(k - 1)

U8(x) == x % 256
U16(x) == x % 65536

\* x << k in a w-bit unsigned type (bits shifted out are lost).
Shl(x, k, w) == (x % Pow2(w - k)) * Pow2(k)
\* x >> k.
Shr(x, k) == x \div Pow2(k)

RECURSIVE BitOr(_, _)
BitOr(a, b) ==
    IF a = 0 THEN b
    ELSE IF b = 0 THEN a
    ELSE (IF (a % 2 = 1) \/ (b % 2 = 1) THEN 1 ELSE 0) + 2 * BitOr(a \div 2, b \div 2)

RECURSIVE BitAnd(_, _)
BitAnd(a, b) ==
    IF a = 0 \/ b = 0 THEN 0
    ELSE (IF (a % 2 = 1) /\ (b % 2 = 1) THEN 1 ELSE 0) + 2 * BitAnd(a \div 2, b \div 2)

\* u8::count_ones / u64::count_ones.
RECURSIVE count_ones(_)
count_ones(x) == IF x = 0 THEN 0 ELSE (x % 2) + count_ones(x \div 2)

\* (n as f64).log2() truncated to an unsigned integer: floor(log2 n) for
\* every n >= 1 the model reaches (n < 2^53 is exact in f64); 0 for n = 0
\* (the cast of -inf saturates to 0).
RECURSIVE lg2(_)
lg2(n) == IF n <= 1 THEN 0 ELSE 1 + lg2(n \div 2)

(***************************************************************************)
(* Results of calls: a value, Some / None, or a panic.                     *)
(***************************************************************************)
Panic == [tag |-> "panic", val |-> 0]
Ok(v) == [tag |-> "ok", val |-> v]
Some(v) == [tag |-> "some", val |-> v]
None == [tag |-> "none", val |-> 0]

(***************************************************************************)
(* RawBitVector (the owning form): bytes, most significant bit first, and  *)
(* the number of bits used in the last byte.                               *)
(***************************************************************************)
\* from_length without its check of the length.
RawBitVector_from_length_panics_unchecked(length) == length < 0

RawBitVector_from_length_panics(length) == ~(length > 0)

RawBitVector_from_length(length) ==
    LET last_byte_len_or_0 == U8(length % 8)
        last_byte_len == IF last_byte_len_or_0 = 0 THEN 8 ELSE last_byte_len_or_0
    IN  [byte_vec |-> [k \in 1..((length - 1) \div 8 + 1) |-> 0],
         last_byte_len |-> last_byte_len]

RawBitVector_length(rbv) == (Len(rbv.byte_vec) - 1) * 8 + rbv.last_byte_len

\* validate_index panics unless i < self.length().
validate_index_panics(rbv, i) == ~(i < RawBitVector_length(rbv))

\* The mask the match arms of access / set_bit use for i % 8.
BitMask(i) == Pow2(7 - (i % 8))

RawBitVector_access(rbv, i) ==
    LET byte == rbv.byte_vec[(i \div 8) + 1]
    IN  BitAnd(byte, BitMask(i)) # 0

RawBitVector_set_bit(rbv, i) ==
    LET byte == rbv.byte_vec[(i \div 8) + 1]
    IN  [rbv EXCEPT !.byte_vec[(i \div 8) + 1] = BitOr(byte, BitMask(i))]

RECURSIVE SumBytes(_, _)
SumBytes(byte_vec, k) ==
    IF k = 0 THEN 0 ELSE count_ones(byte_vec[k]) + SumBytes(byte_vec, k - 1)

\* popcount folds count_ones over every byte, the last one whole.
RawBitVector_popcount(rbv) == SumBytes(rbv.byte_vec, Len(rbv.byte_vec))

\* copy_sub refusing a range that ends at the end of the vector.
copy_sub_panics_exclusive(rbv, i, size) ==
    \/ validate_index_panics(rbv, i)
    \/ ~(i + size < RawBitVector_length(rbv))
    \/ ~(size > 0)

copy_sub_panics(rbv, i, size) ==
    \/ validate_index_panics(rbv, i)
    \/ ~(i + size <= RawBitVector_length(rbv))
    \/ ~(size > 0)

\* copy_sub keeping the bits to the right of the range in its last byte.
copy_sub_keeps_right_bits(rbv, i, size) ==
    LET start == i
        steps == (size + 7) \div 8
        J(k) == start + 8 * (k - 1)
        aligned(k) == rbv.byte_vec[(J(k) \div 8) + 1]
        unaligned(k) ==
            LET i_byte1 == J(k) \div 8
                byte1 == rbv.byte_vec[i_byte1 + 1]
                byte2 == IF i_byte1 + 1 < Len(rbv.byte_vec)
                         THEN rbv.byte_vec[i_byte1 + 2]
                         ELSE 0
            IN  BitOr(Shl(byte1, start % 8, 8), Shr(byte2, 8 - (start % 8)))
    IN  [byte_vec |-> [k \in 1..steps |->
                          IF start % 8 = 0 THEN aligned(k) ELSE unaligned(k)],
         last_byte_len |-> IF size % 8 = 0 THEN 8 ELSE U8(size % 8)]

copy_sub(rbv, i, size) ==
    LET start == i
        end == start + size
        \* j = start, start + 8, ... while j < end
        steps == (size + 7) \div 8
        J(k) == start + 8 * (k - 1)
        aligned(k) ==
            LET j == J(k)
                byte == rbv.byte_vec[(j \div 8) + 1]
                right_bits_to_discard == IF end - j >= 8 THEN 0 ELSE 8 - (end - j)
            IN  Shl(Shr(byte, right_bits_to_discard), right_bits_to_discard, 8)
        left_bits_to_discard_from_byte1 == start % 8
        right_bits_to_discard_from_byte2 == 8 - left_bits_to_discard_from_byte1
        unaligned(k) ==
            LET j == J(k)
                i_byte1 == j \div 8
                byte1 == rbv.byte_vec[i_byte1 + 1]
                byte2 == IF i_byte1 + 1 < Len(rbv.byte_vec)
                         THEN rbv.byte_vec[i_byte1 + 2]
                         ELSE 0
                copied_byte == BitOr(Shl(byte1, left_bits_to_discard_from_byte1, 8),
                                     Shr(byte2, right_bits_to_discard_from_byte2))
                right_bits_to_discard_from_copied_byte ==
                    IF end - j >= 8 THEN 0 ELSE 8 - (end - j)
            IN  Shl(Shr(copied_byte, right_bits_to_discard_from_copied_byte),
                    right_bits_to_discard_from_copied_byte, 8)
    IN  [byte_vec |-> [k \in 1..steps |->
                          IF start % 8 = 0 THEN aligned(k) ELSE unaligned(k)],
         last_byte_len |-> IF size % 8 = 0 THEN 8 ELSE U8(size % 8)]

as_u32_panics(rbv) == ~(Len(rbv.byte_vec) <= 4)

\* A u32 is held as its two 16-bit halves (the checker's integers are
\* narrower than 32 bits): (byte0 << 24) | (byte1 << 16) | (byte2 << 8) | byte3.
as_u32(rbv) ==
    LET bv == rbv.byte_vec
        byte0 == IF Len(bv) > 0 THEN bv[1] ELSE 0
        byte1 == IF Len(bv) > 1 THEN bv[2] ELSE 0
        byte2 == IF Len(bv) > 2 THEN bv[3] ELSE 0
        byte3 == IF Len(bv) > 3 THEN bv[4] ELSE 0
    IN  [hi |-> BitOr(Shl(byte0, 8, 16), byte1), lo |-> BitOr(Shl(byte2, 8, 16), byte3)]

\* word >> k for a u32 word and 1 <= k <= 31.
Shr32(word, k) ==
    IF k >= 16 THEN Shr(word.hi, k - 16)
    ELSE Shl(word.hi, 16 - k, 32 - k) + Shr(word.lo, k)

(***************************************************************************)
(* RawBitVector (the borrowing form Fid uses): a view of a byte slice from *)
(* first_byte_offset on.  Fid only makes views of offset 0, which hold the *)
(* same bits as the owning form; a sub-vector "may be a copy or a view"    *)
(* and is modelled by the copy.                                            *)
(***************************************************************************)
RawBitVector_new(byte_slice, first_byte_offset, last_byte_len) ==
    [byte_vec |-> byte_slice, last_byte_len |-> last_byte_len]

RawBitVector_len(rbv) == RawBitVector_length(rbv)

clone_sub_panics(rbv, i, size) == copy_sub_panics(rbv, i, size)

clone_sub(rbv, i, size) == copy_sub(rbv, i, size)

(***************************************************************************)
(* PopcountTable: table[x] = number of 1-bits of x, for x < 2^bit_length.  *)
(***************************************************************************)
PopcountTable_new_panics(bit_length) == ~(1 <= bit_length /\ bit_length <= 64)

PopcountTable_new(bit_length) ==
    [bit_length |-> bit_length,
     table |-> [target \in 0..(Pow2(bit_length) - 1) |-> U8(count_ones(target))]]

PopcountTable_popcount_panics(t, target) ==
    ~(target <= Pow2(t.bit_length) - 1)

PopcountTable_popcount(t, target) == t.table[target]

(***************************************************************************)
(* PopcountTable over the whole of u64.  A u64 is held as its four 16-bit  *)
(* words, the most significant first; a table is held by its bit_length    *)
(* and the target of its last entry (entry x is x.count_ones(), as         *)
(* `(0..=last).map(count_ones).collect()` makes it).  `1 << bit_length`    *)
(* overflows for bit_length >= 64: a build with overflow checks panics     *)
(* there, a build without them shifts by bit_length % 64.  collect()       *)
(* allocates one byte per entry: more than isize::MAX bytes is a panic     *)
(* ("capacity overflow"), and any smaller table is there or not as the     *)
(* allocator grants it; when it refuses, the process is aborted.           *)
(***************************************************************************)
U64_of(x) == << 0, 0, x \div 65536, x % 65536 >>

\* 1u64 << k for 0 <= k <= 63
U64_one_shl(k) == [w \in 1..4 |-> IF 4 - w = k \div 16 THEN Pow2(k % 16) ELSE 0]

\* x - 1 for x >= 1
U64_minus_1(x) ==
    LET low == CHOOSE w \in 1..4 : x[w] # 0 /\ \A v \in (w + 1)..4 : x[v] = 0
    IN  [w \in 1..4 |-> IF w < low THEN x[w] ELSE IF w = low THEN x[w] - 1 ELSE 65535]

\* a <= b
U64_le(a, b) ==
    \/ a = b
    \/ \E w \in 1..4 : a[w] < b[w] /\ \A v \in 1..(w - 1) : a[v] = b[v]

U64_count_ones(x) ==
    count_ones(x[1]) + count_ones(x[2]) + count_ones(x[3]) + count_ones(x[4])

\* (1 << bit_length) - 1 as a u64, or the panic of the overflow check.
PopcountTable_last_target(bit_length, overflow_checks) ==
    IF bit_length < 64 THEN Ok(U64_minus_1(U64_one_shl(bit_length)))
    ELSE IF overflow_checks THEN Panic
    ELSE Ok(U64_minus_1(U64_one_shl(bit_length % 64)))

\* The table has last + 1 entries: more than isize::MAX = 2^63 - 1 of them.
PopcountTable_capacity_overflow(last) == U64_le(<< 32767, 65535, 65535, 65535 >>, last)

\* collect() asks the allocator for last + 1 bytes, which it may refuse.
PopcountTable_alloc_may_fail(last) == ~PopcountTable_capacity_overflow(last)

PopcountTable_new_u64_panics(bit_length, overflow_checks) ==
    LET last == PopcountTable_last_target(bit_length, overflow_checks)
    IN  \/ PopcountTable_new_panics(bit_length)
        \/ last = Panic
        \/ PopcountTable_capacity_overflow(last.val)

PopcountTable_new_u64(bit_length, overflow_checks) ==
    [bit_length |-> bit_length,
     last |-> PopcountTable_last_target(bit_length, overflow_checks).val,
     overflow_checks |-> overflow_checks,
     alloc_ok |-> TRUE]

\* The assertion on target, then the index into the table.
PopcountTable_popcount_u64_panics(t, target) ==
    \/ PopcountTable_last_target(t.bit_length, t.overflow_checks) = Panic
    \/ ~U64_le(target, PopcountTable_last_target(t.bit_length, t.overflow_checks).val)
    \/ ~U64_le(target, t.last)

PopcountTable_popcount_u64(t, target) == U8(U64_count_ones(target))

(***************************************************************************)
(* Block, Blocks: the blocks of one chunk.  A block's value is the number  *)
(* of 1-bits from the first bit of its chunk through its own last bit.     *)
(***************************************************************************)
Block_new(value, length) == [value |-> value, length |-> length]

calc_block_size(n) ==
    LET sz == U8(lg2(n)) \div 2
    IN  IF sz = 0 THEN 1 ELSE sz

\* calc_chunk_size without the squaring.
calc_chunk_size_not_squared(n) ==
    LET sz == U16(lg2(n))
    IN  IF sz = 0 THEN 1 ELSE sz

calc_chunk_size(n) ==
    LET sz == U16(U16(lg2(n)) * U16(lg2(n)))
    IN  IF sz = 0 THEN 1 ELSE sz

calc_chunks_cnt(n) ==
    LET chunk_size == calc_chunk_size(n)
    IN  n \div chunk_size + (IF n % chunk_size = 0 THEN 0 ELSE 1)

\* blocks_cnt without the block for the remainder.
Blocks_cnt_rounded_down(rbv, this_chunk_size) ==
    LET block_size == calc_block_size(RawBitVector_length(rbv))
    IN  U16(this_chunk_size \div block_size)

Blocks_cnt(rbv, this_chunk_size) ==
    LET block_size == calc_block_size(RawBitVector_length(rbv))
    IN  U16(this_chunk_size \div block_size
            + (IF this_chunk_size % block_size = 0 THEN 0 ELSE 1))

\* Where block i_block of chunk i_chunk starts in the raw bit vector.
Blocks_i_rbv(rbv, i_chunk, i_block) ==
    LET n == RawBitVector_length(rbv)
    IN  i_chunk * calc_chunk_size(n) + i_block * calc_block_size(n)

Blocks_this_block_size(rbv, i_chunk, i_block) ==
    LET n == RawBitVector_length(rbv)
        block_size == calc_block_size(n)
        i_rbv == Blocks_i_rbv(rbv, i_chunk, i_block)
    IN  IF n - i_rbv >= block_size THEN block_size ELSE U8(n - i_rbv)

Blocks_new_panics(rbv, i_chunk, this_chunk_size) ==
    \E i_block \in 0..(Blocks_cnt(rbv, this_chunk_size) - 1) :
        \/ ~(Blocks_i_rbv(rbv, i_chunk, i_block) < RawBitVector_length(rbv))
        \/ copy_sub_panics(rbv, Blocks_i_rbv(rbv, i_chunk, i_block),
                           Blocks_this_block_size(rbv, i_chunk, i_block))

\* The vector `blocks` after the loop has pushed cnt blocks.
RECURSIVE Blocks_loop(_, _, _)
Blocks_loop(rbv, i_chunk, cnt) ==
    IF cnt = 0 THEN << >>
    ELSE LET blocks == Blocks_loop(rbv, i_chunk, cnt - 1)
             i_block == cnt - 1
             i_rbv == Blocks_i_rbv(rbv, i_chunk, i_block)
             this_block_size == Blocks_this_block_size(rbv, i_chunk, i_block)
             block_rbv == copy_sub(rbv, i_rbv, this_block_size)
             popcount_in_block == U16(RawBitVector_popcount(block_rbv))
             block == Block_new(
                         U16(popcount_in_block
                             + (IF i_block = 0 THEN 0 ELSE blocks[i_block].value)),
                         this_block_size)
         IN  Append(blocks, block)

Blocks_new(rbv, i_chunk, this_chunk_size) ==
    LET blocks_cnt == Blocks_cnt(rbv, this_chunk_size)
    IN  [blocks |-> Blocks_loop(rbv, i_chunk, blocks_cnt), blocks_cnt |-> blocks_cnt]

\* Blocks::access asserts i <= blocks_cnt, then indexes the vector (which
\* panics for i >= blocks.len()).
Blocks_access_panics(bs, i) == ~(i <= bs.blocks_cnt) \/ ~(i < Len(bs.blocks))

Blocks_access(bs, i) == bs.blocks[i + 1]

(***************************************************************************)
(* Chunk, Chunks: a chunk's value is the number of 1-bits from bit 0       *)
(* through the chunk's last bit.                                           *)
(***************************************************************************)
Chunk_new_panics(value, length, rbv, i_chunk) == Blocks_new_panics(rbv, i_chunk, length)

Chunk_new(value, length, rbv, i_chunk) ==
    [value |-> value, length |-> length, blocks |-> Blocks_new(rbv, i_chunk, length)]

\* The length of chunk i_chunk (the last chunk may be shorter).
Chunks_this_chunk_size(rbv, i_chunk) ==
    LET n == RawBitVector_len(rbv)
        chunk_size == calc_chunk_size(n)
        chunks_cnt == calc_chunks_cnt(n)
        chunk_size_or_0 == U16(n % chunk_size)
    IN  IF i_chunk = chunks_cnt - 1
        THEN (IF chunk_size_or_0 = 0 THEN chunk_size ELSE chunk_size_or_0)
        ELSE chunk_size

\* What the task of chunk i_chunk stores in its slot: the chunk with the
\* popcount of its own bits.
Chunks_task(rbv, i_chunk) ==
    LET n == RawBitVector_len(rbv)
        chunk_size == calc_chunk_size(n)
        this_chunk_size == Chunks_this_chunk_size(rbv, i_chunk)
        chunk_rbv == clone_sub(rbv, i_chunk * chunk_size, this_chunk_size)
        popcnt_in_chunk == RawBitVector_popcount(chunk_rbv)
    IN  Chunk_new(popcnt_in_chunk, this_chunk_size, rbv, i_chunk)

Chunks_task_panics(rbv, i_chunk) ==
    LET n == RawBitVector_len(rbv)
        this_chunk_size == Chunks_this_chunk_size(rbv, i_chunk)
    IN  \/ clone_sub_panics(rbv, i_chunk * calc_chunk_size(n), this_chunk_size)
        \/ Chunk_new_panics(0, this_chunk_size, rbv, i_chunk)

\* Chunks::new without the sequential pass: every chunk keeps the popcount
\* of its own bits.
Chunks_prefix_sum_skipped(chunks, cnt) == chunks

\* The sequential pass: chunks[i].value += chunks[i - 1].value, left to right.
RECURSIVE Chunks_prefix_sum(_, _)
Chunks_prefix_sum(chunks, cnt) ==
    IF cnt = 0 THEN chunks
    ELSE LET done == Chunks_prefix_sum(chunks, cnt - 1)
             i_chunk == cnt - 1
         IN  [done EXCEPT ![i_chunk + 1].value =
                 @ + (IF i_chunk = 0 THEN 0 ELSE done[i_chunk].value)]

Chunks_new_panics(rbv) ==
    \E i_chunk \in 0..(calc_chunks_cnt(RawBitVector_len(rbv)) - 1) :
        Chunks_task_panics(rbv, i_chunk)

Chunks_new(rbv) ==
    LET n == RawBitVector_len(rbv)
        chunks_cnt == calc_chunks_cnt(n)
        opt_chunks == [k \in 1..chunks_cnt |-> Chunks_task(rbv, k - 1)]
    IN  [chunks |-> Chunks_prefix_sum(opt_chunks, chunks_cnt), chunks_cnt |-> chunks_cnt]

\* Chunks::new step by step, as the worker pool runs it.
\* vec![None; chunks_cnt]
Chunks_new_slots(rbv) == [k \in 1..calc_chunks_cnt(RawBitVector_len(rbv)) |-> None]

\* A task storing its chunk in the first slot that is still empty.
Chunks_slot_write_first_empty(opt_chunks, i_chunk, chunk) ==
    LET k == CHOOSE j \in 1..Len(opt_chunks) :
                 opt_chunks[j] = None /\ \A h \in 1..(j - 1) : opt_chunks[h] # None
    IN  [opt_chunks EXCEPT ![k] = Some(chunk)]

\* *chunk = Some(Chunk::new(..)), chunk being the slot of i_chunk.
Chunks_slot_write(opt_chunks, i_chunk, chunk) ==
    [opt_chunks EXCEPT ![i_chunk + 1] = Some(chunk)]

\* opt_chunks.into_iter().map(|v| v.unwrap()).collect()
Chunks_unwrap_panics(opt_chunks) == \E k \in 1..Len(opt_chunks) : opt_chunks[k] = None

Chunks_unwrap(opt_chunks) == [k \in 1..Len(opt_chunks) |-> opt_chunks[k].val]

\* Chunks::access asserts i <= chunks_cnt, then indexes the vector.
Chunks_access_panics(cs, i) == ~(i <= cs.chunks_cnt) \/ ~(i < Len(cs.chunks))

Chunks_access(cs, i) == cs.chunks[i + 1]

(***************************************************************************)
(* Fid: the bytes, the bit length, the rank directory and the table.       *)
(***************************************************************************)
Fid_build_panics(byte_vec, last_byte_len) ==
    LET rbv == RawBitVector_new(byte_vec, 0, last_byte_len)
    IN  \/ Chunks_new_panics(rbv)
        \/ PopcountTable_new_panics(calc_block_size(RawBitVector_len(rbv)))

Fid_build(byte_vec, last_byte_len) ==
    LET bit_len == (Len(byte_vec) - 1) * 8 + last_byte_len
        rbv == RawBitVector_new(byte_vec, 0, last_byte_len)
    IN  [byte_vec |-> byte_vec,
         bit_len |-> bit_len,
         chunks |-> Chunks_new(rbv),
         table |-> PopcountTable_new(calc_block_size(RawBitVector_len(rbv)))]

\* bits.chunks(8): the k-th group of at most 8 bits (k from 1).
Bits8(bits, k) == SubSeq(bits, 8 * (k - 1) + 1, IF 8 * k <= Len(bits) THEN 8 * k ELSE Len(bits))

\* The fold with the bits of a byte in the opposite order: 1 << i.
RECURSIVE Bits8_fold_lsb_first(_, _)
Bits8_fold_lsb_first(bits8, cnt) ==
    IF cnt = 0 THEN 0
    ELSE LET i == cnt - 1
         IN  Bits8_fold_lsb_first(bits8, cnt - 1) + (IF bits8[i + 1] THEN Shl(1, i, 8) ELSE 0)

\* The fold over 0..last_byte_len: byte + (1 << (7 - i)) for every set bit.
RECURSIVE Bits8_fold(_, _)
Bits8_fold(bits8, cnt) ==
    IF cnt = 0 THEN 0
    ELSE LET i == cnt - 1
         IN  Bits8_fold(bits8, cnt - 1) + (IF bits8[i + 1] THEN Shl(1, 7 - i, 8) ELSE 0)

Fid_from_slice_byte_vec(bits) ==
    [k \in 1..((Len(bits) + 7) \div 8) |-> Bits8_fold(Bits8(bits, k), Len(Bits8(bits, k)))]

Fid_from_slice_last_byte_len(bits) ==
    U8(Len(Bits8(bits, (Len(bits) + 7) \div 8)))

Fid_from_slice_panics(bits) ==
    \/ bits = << >>
    \/ Fid_build_panics(Fid_from_slice_byte_vec(bits), Fid_from_slice_last_byte_len(bits))

Fid_from_slice(bits) ==
    Fid_build(Fid_from_slice_byte_vec(bits), Fid_from_slice_last_byte_len(bits))

Fid_len(fid) == fid.bit_len

Fid_rbv(fid) ==
    LET last_byte_len_or_0 == U8(fid.bit_len % 8)
    IN  RawBitVector_new(fid.byte_vec, 0,
                         IF last_byte_len_or_0 = 0 THEN 8 ELSE last_byte_len_or_0)

\* fid[index]
Fid_index(fid, index) ==
    IF validate_index_panics(Fid_rbv(fid), index) THEN Panic
    ELSE Ok(RawBitVector_access(Fid_rbv(fid), index))

Fid_rank(fid, i) ==
    LET n == Fid_len(fid)
        chunk_size == calc_chunk_size(n)
        block_size == calc_block_size(n)
        i_chunk == i \div chunk_size
        rank_from_chunk ==
            IF i_chunk = 0 THEN 0 ELSE Chunks_access(fid.chunks, i_chunk - 1).value
        chunk_right == Chunks_access(fid.chunks, i_chunk)
        i_block == (i - i_chunk * chunk_size) \div block_size
        rank_from_block ==
            IF i_block = 0 THEN 0 ELSE Blocks_access(chunk_right.blocks, i_block - 1).value
        block_right == Blocks_access(chunk_right.blocks, i_block)
        pos_block_start == i_chunk * chunk_size + i_block * block_size
        block_right_rbv == clone_sub(Fid_rbv(fid), pos_block_start, block_right.length)
        block_right_as_u32 == as_u32(block_right_rbv)
        bits_to_use == i - pos_block_start + 1
        block_bits == Shr32(block_right_as_u32, 32 - bits_to_use)
        rank_from_table == PopcountTable_popcount(fid.table, block_bits)
    IN  IF ~(i < n) THEN Panic
        ELSE IF i_chunk # 0 /\ Chunks_access_panics(fid.chunks, i_chunk - 1) THEN Panic
        ELSE IF Chunks_access_panics(fid.chunks, i_chunk) THEN Panic
        ELSE IF i_block # 0 /\ Blocks_access_panics(chunk_right.blocks, i_block - 1) THEN Panic
        ELSE IF Blocks_access_panics(chunk_right.blocks, i_block) THEN Panic
        ELSE IF ~(i - pos_block_start < block_right.length) THEN Panic
        ELSE IF clone_sub_panics(Fid_rbv(fid), pos_block_start, block_right.length) THEN Panic
        ELSE IF as_u32_panics(block_right_rbv) THEN Panic
        ELSE IF ~(1 <= 32 - bits_to_use /\ 32 - bits_to_use <= 31) THEN Panic
        ELSE IF PopcountTable_popcount_panics(fid.table, block_bits) THEN Panic
        ELSE Ok(rank_from_chunk + rank_from_block + rank_from_table)

\* rank0 as i - rank(i).
Fid_rank0_off_by_one(fid, i) ==
    LET r == Fid_rank(fid, i)
    IN  IF r.tag = "panic" THEN Panic
        ELSE IF i - r.val < 0 THEN Panic
        ELSE Ok(i - r.val)

\* (i + 1) - self.rank(i), in u64 with overflow checks.
Fid_rank0(fid, i) ==
    LET r == Fid_rank(fid, i)
    IN  IF r.tag = "panic" THEN Panic
        ELSE IF (i + 1) - r.val < 0 THEN Panic
        ELSE Ok((i + 1) - r.val)

\* The binary search comparing rank(mid) > num.
RECURSIVE Fid_select_loop_strict(_, _, _, _)
Fid_select_loop_strict(fid, num, ng, ok) ==
    IF ~(ok - ng > 1) THEN Some(ok)
    ELSE LET mid == (ok + ng) \div 2
             r == Fid_rank(fid, mid)
         IN  IF r.tag = "panic" THEN Panic
             ELSE IF r.val > num THEN Fid_select_loop_strict(fid, num, ng, mid)
             ELSE Fid_select_loop_strict(fid, num, mid, ok)

\* while ok - ng > 1 { mid = (ok + ng) / 2; if rank(mid) >= num { ok = mid } else { ng = mid } }
RECURSIVE Fid_select_loop(_, _, _, _)
Fid_select_loop(fid, num, ng, ok) ==
    IF ~(ok - ng > 1) THEN Some(ok)
    ELSE LET mid == (ok + ng) \div 2
             r == Fid_rank(fid, mid)
         IN  IF r.tag = "panic" THEN Panic
             ELSE IF r.val >= num THEN Fid_select_loop(fid, num, ng, mid)
             ELSE Fid_select_loop(fid, num, mid, ok)

\* select without the check that the num-th 1-bit exists.
Fid_select_no_none(fid, num) ==
    LET n == Fid_len(fid)
        first == Fid_index(fid, 0)
    IN  IF ~(num <= n) THEN Panic
        ELSE IF num = 0 THEN Some(0)
        ELSE IF num = 1 /\ first.tag = "panic" THEN Panic
        ELSE IF num = 1 /\ first.val = TRUE THEN Some(0)
        ELSE Fid_select_loop(fid, num, 0, n - 1)

\* select without the assertion num <= n.
Fid_select_no_assert(fid, num) ==
    LET n == Fid_len(fid)
        first == Fid_index(fid, 0)
        last == Fid_rank(fid, n - 1)
    IN  IF num = 0 THEN Some(0)
        ELSE IF num = 1 /\ first.tag = "panic" THEN Panic
        ELSE IF num = 1 /\ first.val = TRUE THEN Some(0)
        ELSE IF last.tag = "panic" THEN Panic
        ELSE IF last.val < num THEN None
        ELSE Fid_select_loop(fid, num, 0, n - 1)

Fid_select(fid, num) ==
    LET n == Fid_len(fid)
        first == Fid_index(fid, 0)
        last == Fid_rank(fid, n - 1)
    IN  IF ~(num <= n) THEN Panic
        ELSE IF num = 0 THEN Some(0)
        ELSE IF num = 1 /\ first.tag = "panic" THEN Panic
        ELSE IF num = 1 /\ first.val = TRUE THEN Some(0)
        ELSE IF last.tag = "panic" THEN Panic
        ELSE IF last.val < num THEN None
        ELSE Fid_select_loop(fid, num, 0, n - 1)

\* The binary search of select0 with its two branches exchanged.
RECURSIVE Fid_select0_loop_swapped(_, _, _, _)
Fid_select0_loop_swapped(fid, num, ng, ok) ==
    IF ~(ok - ng > 1) THEN Some(ok)
    ELSE LET mid == (ok + ng) \div 2
             r == Fid_rank0(fid, mid)
         IN  IF r.tag = "panic" THEN Panic
             ELSE IF r.val >= num THEN Fid_select0_loop_swapped(fid, num, mid, ok)
             ELSE Fid_select0_loop_swapped(fid, num, ng, mid)

RECURSIVE Fid_select0_loop(_, _, _, _)
Fid_select0_loop(fid, num, ng, ok) ==
    IF ~(ok - ng > 1) THEN Some(ok)
    ELSE LET mid == (ok + ng) \div 2
             r == Fid_rank0(fid, mid)
         IN  IF r.tag = "panic" THEN Panic
             ELSE IF r.val >= num THEN Fid_select0_loop(fid, num, ng, mid)
             ELSE Fid_select0_loop(fid, num, mid, ok)

\* select0 with the test of bit 0 copied from select (not negated).
Fid_select0_bit0_not_negated(fid, num) ==
    LET n == fid.bit_len
        first == Fid_index(fid, 0)
        last == Fid_rank0(fid, n - 1)
    IN  IF ~(num <= n) THEN Panic
        ELSE IF num = 0 THEN Some(0)
        ELSE IF num = 1 /\ first.tag = "panic" THEN Panic
        ELSE IF num = 1 /\ first.val = TRUE THEN Some(0)
        ELSE IF last.tag = "panic" THEN Panic
        ELSE IF last.val < num THEN None
        ELSE Fid_select0_loop(fid, num, 0, n - 1)

Fid_select0(fid, num) ==
    LET n == fid.bit_len
        first == Fid_index(fid, 0)
        last == Fid_rank0(fid, n - 1)
    IN  IF ~(num <= n) THEN Panic
        ELSE IF num = 0 THEN Some(0)
        ELSE IF num = 1 /\ first.tag = "panic" THEN Panic
        ELSE IF num = 1 /\ first.val = FALSE THEN Some(0)
        ELSE IF last.tag = "panic" THEN Panic
        ELSE IF last.val < num THEN None
        ELSE Fid_select0_loop(fid, num, 0, n - 1)

(***************************************************************************)
(* select and select0 step by step: the part before the loop, and one turn *)
(* of the loop.                                                            *)
(***************************************************************************)
\* select(num) gets to `let mut ng = 0`: no assertion failed and neither
\* of the two returns was taken.
Fid_select_enters_loop(fid, num) ==
    LET n == Fid_len(fid)
    IN  /\ num <= n
        /\ ~(num = 0 \/ (num = 1 /\ Fid_index(fid, 0) = Ok(TRUE)))
        /\ Fid_rank(fid, n - 1).tag = "ok"
        /\ ~(Fid_rank(fid, n - 1).val < num)

Fid_select0_enters_loop(fid, num) ==
    LET n == fid.bit_len
    IN  /\ num <= n
        /\ ~(num = 0 \/ (num = 1 /\ Fid_index(fid, 0) = Ok(FALSE)))
        /\ Fid_rank0(fid, n - 1).tag = "ok"
        /\ ~(Fid_rank0(fid, n - 1).val < num)

\* The turn of select's loop with > for >=.
Fid_select_turn_strict(fid, num, ng, ok) ==
    LET mid == (ok + ng) \div 2
    IN  IF Fid_rank(fid, mid).val > num THEN [ng |-> ng, ok |-> mid]
        ELSE [ng |-> mid, ok |-> ok]

\* let mid = (ok + ng) / 2; if self.rank(mid) >= num { ok = mid } else { ng = mid }
Fid_select_turn(fid, num, ng, ok) ==
    LET mid == (ok + ng) \div 2
    IN  IF Fid_rank(fid, mid).val >= num THEN [ng |-> ng, ok |-> mid]
        ELSE [ng |-> mid, ok |-> ok]

Fid_select0_turn(fid, num, ng, ok) ==
    LET mid == (ok + ng) \div 2
    IN  IF Fid_rank0(fid, mid).val >= num THEN [ng |-> ng, ok |-> mid]
        ELSE [ng |-> mid, ok |-> ok]

(***************************************************************************)
(* BitString: a text of '0', '1' and '_' with every '_' removed.  A text   *)
(* is a sequence of characters; "x" stands for any other character.        *)
(***************************************************************************)
Chars == {"0", "1", "_", "x"}

\* The filter closure panics on a character other than '0', '1' and '_'.
BitString_char_panics(c) == c \notin {"0", "1", "_"}

\* The filter closure keeping '_' as well.
BitString_keeps_underscore(c) == c \in {"0", "1", "_"}

\* The filter closure: '0' | '1' => true, '_' => false.
BitString_keeps(c) == c \in {"0", "1"}

RECURSIVE BitString_parsed(_)
BitString_parsed(s) ==
    IF s = << >> THEN << >>
    ELSE IF BitString_keeps(Head(s)) THEN << Head(s) >> \o BitString_parsed(Tail(s))
    ELSE BitString_parsed(Tail(s))

BitString_new_panics(s) ==
    \/ \E k \in 1..Len(s) : BitString_char_panics(s[k])
    \/ BitString_parsed(s) = << >>

\* The BitString made of s; str() returns it.
BitString_new(s) == BitString_parsed(s)

\* bs.str().as_bytes().iter().map(|c| *c == '1' as u8)
Fid_from_str_bits(s) ==
    LET bs == BitString_new(s) IN [k \in 1..Len(bs) |-> bs[k] = "1"]

Fid_from_str_panics(s) ==
    BitString_new_panics(s) \/ Fid_from_slice_panics(Fid_from_str_bits(s))

Fid_from_str(s) == Fid_from_slice(Fid_from_str_bits(s))

(***************************************************************************)
(* FidIter: a Fid and the index of the next bit.                           *)
(***************************************************************************)
\* FidIter { fid: self, i: 0 }
Fid_iter(fid) == [i |-> 0]

\* next() with the comparison self.i > length.
FidIter_next_past_end(fid, it) ==
    IF it.i > Fid_len(fid) THEN [iter |-> it, item |-> None]
    ELSE LET v == Fid_index(fid, it.i)
         IN  [iter |-> [i |-> it.i + 1],
              item |-> IF v.tag = "panic" THEN Panic ELSE Some(v.val)]

\* if self.i >= length { None } else { self.i += 1; Some(self.fid[self.i - 1]) }
FidIter_next(fid, it) ==
    IF it.i >= Fid_len(fid) THEN [iter |-> it, item |-> None]
    ELSE LET i == it.i + 1
             v == Fid_index(fid, i - 1)
         IN  [iter |-> [i |-> i],
              item |-> IF v.tag = "panic" THEN Panic ELSE Some(v.val)]

(***************************************************************************)
(* FidBuilder: a seed (a length or a bit string) and the set of bits to    *)
(* set when building.                                                      *)
(***************************************************************************)
FidBuilder_from_length(length) ==
    [seed |-> [kind |-> "Length", n |-> length, bs |-> << >>], bits_set |-> {}]

FidBuilder_from_bit_string(bs) ==
    [seed |-> [kind |-> "BitStr", n |-> 0, bs |-> bs], bits_set |-> {}]

FidBuilder_current_length(b) ==
    IF b.seed.kind = "Length" THEN b.seed.n ELSE Len(b.seed.bs)

\* set_bit accepting the position one past the end.
FidBuilder_set_bit_panics_inclusive(b, i) == ~(i <= FidBuilder_current_length(b))

FidBuilder_set_bit_panics(b, i) == ~(i < FidBuilder_current_length(b))

\* set_bit keeping the last position only.
FidBuilder_set_bit_forgets(b, i) == [b EXCEPT !.bits_set = {i}]

FidBuilder_set_bit(b, i) == [b EXCEPT !.bits_set = @ \cup {i}]

\* add_bit taking the position of the new bit after the seed has grown.
FidBuilder_add_bit_late_length(b, bit) ==
    LET seed == IF b.seed.kind = "Length"
                THEN [b.seed EXCEPT !.n = @ + 1]
                ELSE [b.seed EXCEPT !.bs = BitString_new(b.seed.bs \o << "0" >>)]
        length == FidBuilder_current_length([seed |-> seed, bits_set |-> b.bits_set])
        bits_set == IF bit THEN b.bits_set \cup {length} ELSE b.bits_set
    IN  [seed |-> seed, bits_set |-> bits_set]

FidBuilder_add_bit(b, bit) ==
    LET length == FidBuilder_current_length(b)
        bits_set == IF bit THEN b.bits_set \cup {length} ELSE b.bits_set
        seed == IF b.seed.kind = "Length"
                THEN [b.seed EXCEPT !.n = @ + 1]
                ELSE [b.seed EXCEPT !.bs = BitString_new(b.seed.bs \o << "0" >>)]
    IN  [seed |-> seed, bits_set |-> bits_set]

\* rbv.set_bit(i) for every i of the set (the order does not matter to |=).
RECURSIVE RawBitVector_set_bits(_, _)
RawBitVector_set_bits(rbv, set) ==
    IF set = {} THEN rbv
    ELSE LET i == CHOOSE x \in set : TRUE
         IN  RawBitVector_set_bits(RawBitVector_set_bit(rbv, i), set \ {i})

RawBitVector_from_bit_string(bs) ==
    RawBitVector_set_bits(RawBitVector_from_length(Len(bs)),
                          {i \in 0..(Len(bs) - 1) : bs[i + 1] = "1"})

FidBuilder_seed_rbv(b) ==
    IF b.seed.kind = "Length"
    THEN RawBitVector_from_length(b.seed.n)
    ELSE RawBitVector_from_bit_string(b.seed.bs)

FidBuilder_build_panics(b) ==
    \/ FidBuilder_current_length(b) = 0
    \/ RawBitVector_from_length_panics(FidBuilder_current_length(b))
    \/ \E bit \in b.bits_set : validate_index_panics(FidBuilder_seed_rbv(b), bit)
    \/ Chunks_new_panics(RawBitVector_set_bits(FidBuilder_seed_rbv(b), b.bits_set))
    \/ PopcountTable_new_panics(calc_block_size(FidBuilder_current_length(b)))

\* Fid { rbv, chunks, table }: the bytes and the length are those of rbv.
FidBuilder_build(b) ==
    LET rbv == RawBitVector_set_bits(FidBuilder_seed_rbv(b), b.bits_set)
    IN  [byte_vec |-> rbv.byte_vec,
         bit_len |-> RawBitVector_length(rbv),
         chunks |-> Chunks_new(rbv),
         table |-> PopcountTable_new(calc_block_size(RawBitVector_length(rbv)))]

(***************************************************************************)
(* The succinct bit vector under a Louds.  SuccinctBitVector and its       *)
(* builder are the Fid and the FidBuilder under their former names: the    *)
(* same fields and, line by line, the same methods.                        *)
(***************************************************************************)
SuccinctBitVectorBuilder_from_bit_string(bs) == FidBuilder_from_bit_string(bs)

SuccinctBitVectorBuilder_build_panics(b) == FidBuilder_build_panics(b)

SuccinctBitVectorBuilder_build(b) == FidBuilder_build(b)

\* self.rbv.access(i)
SuccinctBitVector_access(bv, i) == Fid_index(bv, i)

SuccinctBitVector_rank(bv, i) == Fid_rank(bv, i)

SuccinctBitVector_rank0(bv, i) == Fid_rank0(bv, i)

SuccinctBitVector_select(bv, num) == Fid_select(bv, num)

SuccinctBitVector_select0(bv, num) == Fid_select0(bv, num)

(***************************************************************************)
(* LoudsBuilder and Louds: a tree as an LBS, node numbers from 1 in level  *)
(* order, indices into the LBS.                                            *)
(***************************************************************************)
\* The loop of validate_lbs from character k on (1-based): whether it panics,
\* and the counts it ends with.
RECURSIVE validate_lbs_loop(_, _, _, _)
validate_lbs_loop(s, k, cnt0, cnt1) ==
    IF k > Len(s) THEN [panics |-> FALSE, cnt0 |-> cnt0, cnt1 |-> cnt1]
    ELSE IF s[k] \notin {"0", "1"} THEN [panics |-> TRUE, cnt0 |-> cnt0, cnt1 |-> cnt1]
    ELSE LET c0 == IF s[k] = "0" THEN cnt0 + 1 ELSE cnt0
             c1 == IF s[k] = "1" THEN cnt1 + 1 ELSE cnt1
         IN  IF ~(c0 <= c1 + 1) THEN [panics |-> TRUE, cnt0 |-> c0, cnt1 |-> c1]
             ELSE validate_lbs_loop(s, k + 1, c0, c1)

\* s.starts_with("10")
starts_with_10(s) == Len(s) >= 2 /\ s[1] = "1" /\ s[2] = "0"

\* validate_lbs without the final assert_eq!(cnt0, cnt1 + 1).
LoudsBuilder_validate_lbs_panics_no_total(bs) ==
    \/ ~starts_with_10(bs)
    \/ validate_lbs_loop(bs, 1, 0, 0).panics

LoudsBuilder_validate_lbs_panics(bs) ==
    LET r == validate_lbs_loop(bs, 1, 0, 0)
    IN  \/ ~starts_with_10(bs)
        \/ r.panics
        \/ r.cnt0 # r.cnt1 + 1

LoudsBuilder_from_bit_string_panics(bs) == LoudsBuilder_validate_lbs_panics(bs)

LoudsBuilder_from_bit_string(bs) ==
    [bv_builder |-> SuccinctBitVectorBuilder_from_bit_string(bs)]

LoudsBuilder_build_panics(b) == SuccinctBitVectorBuilder_build_panics(b.bv_builder)

LoudsBuilder_build(b) == [lbs |-> SuccinctBitVectorBuilder_build(b.bv_builder)]

\* validate_index checking the range only.
Louds_validate_index_panics_range_only(l, index) ==
    SuccinctBitVector_access(l.lbs, index).tag = "panic"

\* assert_eq!(self.lbs.access(index.value()), true)
Louds_validate_index_panics(l, index) ==
    LET b == SuccinctBitVector_access(l.lbs, index)
    IN  b.tag = "panic" \/ b.val # TRUE

\* node_num_to_index without assert!(node_num.value() > 0).
Louds_node_num_to_index_no_assert(l, node_num) ==
    LET index == SuccinctBitVector_select(l.lbs, node_num)
    IN  IF index.tag # "some" THEN Panic ELSE Ok(index.val)

Louds_node_num_to_index(l, node_num) ==
    IF ~(node_num > 0) THEN Panic
    ELSE LET index == SuccinctBitVector_select(l.lbs, node_num)
         IN  IF index.tag # "some" THEN Panic ELSE Ok(index.val)

\* index_to_node_num returning rank0.
Louds_index_to_node_num_rank0(l, index) ==
    IF Louds_validate_index_panics(l, index) THEN Panic
    ELSE SuccinctBitVector_rank0(l.lbs, index)

Louds_index_to_node_num(l, index) ==
    IF Louds_validate_index_panics(l, index) THEN Panic
    ELSE SuccinctBitVector_rank(l.lbs, index)

\* child_to_parent returning rank.
Louds_child_to_parent_rank(l, index) ==
    IF Louds_validate_index_panics(l, index) THEN Panic
    ELSE IF ~(index # 0) THEN Panic
    ELSE SuccinctBitVector_rank(l.lbs, index)

Louds_child_to_parent(l, index) ==
    IF Louds_validate_index_panics(l, index) THEN Panic
    ELSE IF ~(index # 0) THEN Panic
    ELSE SuccinctBitVector_rank0(l.lbs, index)

\* The loop leaving after the first child.
Louds_children_loop_first_only(l, i, children_index) ==
    LET b == SuccinctBitVector_access(l.lbs, i)
    IN  IF b.tag = "panic" THEN Panic
        ELSE IF b.val = FALSE THEN Ok(children_index)
        ELSE Ok(Append(children_index, i))

\* loop { if self.lbs.access(i) == false { break } else { push(i) }; i += 1 }
RECURSIVE Louds_children_loop(_, _, _)
Louds_children_loop(l, i, children_index) ==
    LET b == SuccinctBitVector_access(l.lbs, i)
    IN  IF b.tag = "panic" THEN Panic
        ELSE IF b.val = FALSE THEN Ok(children_index)
        ELSE Louds_children_loop(l, i + 1, Append(children_index, i))

\* parent_to_children starting at select0(node_num), without the + 1.
Louds_parent_to_children_no_plus_1(l, node_num) ==
    IF ~(node_num > 0) THEN Panic
    ELSE LET sel == SuccinctBitVector_select0(l.lbs, node_num)
         IN  IF sel.tag # "some" THEN Panic
             ELSE Louds_children_loop(l, sel.val, << >>)

Louds_parent_to_children(l, node_num) ==
    IF ~(node_num > 0) THEN Panic
    ELSE LET sel == SuccinctBitVector_select0(l.lbs, node_num)
         IN  IF sel.tag # "some" THEN Panic
             ELSE Louds_children_loop(l, sel.val + 1, << >>)

(***************************************************************************)
(* The state: what has been constructed, and the last call with its        *)
(* argument and result.                                                    *)
(***************************************************************************)
VARIABLES
    pc,       \* "start", "builder", "built" (a Fid exists), "called", "failed" (a panic)
    src,      \* what the Fid was made from
    fid,      \* the Fid, once built
    builder,  \* the FidBuilder, once made
    op,       \* the last call
    arg,      \* its argument
    res,      \* its result
    hist,     \* what the builder was told: its seed's bits, the positions
              \* given to set_bit and the bits given to add_bit
    iter,     \* the FidIter over fid
    louds,    \* the Louds, once built
    opt_chunks, \* Chunks::new in progress: the slots of the chunks
    tasks,    \* Chunks::new in progress: the per-chunk tasks
    search,   \* select / select0 in progress: num, ng, ok of the binary search
    raw,      \* a RawBitVector on its own, and its last copy_sub
    table     \* a PopcountTable on its own

vars == << pc, src, fid, builder, op, arg, res, hist, iter, louds, opt_chunks, tasks,
          search, raw, table >>

\* A character str() keeps.
NotUnderscore(c) == c # "_"

NoSrc == [kind |-> "none", bits |-> << >>, text |-> << >>]
NoFid == [byte_vec |-> << >>, bit_len |-> 0,
          chunks |-> [chunks |-> << >>, chunks_cnt |-> 0],
          table |-> [bit_length |-> 0, table |-> << >>]]
NoBuilder == [seed |-> [kind |-> "none", n |-> 0, bs |-> << >>], bits_set |-> {}]
NoHist == [seed |-> << >>, set |-> {}, added |-> << >>]
NoIter == [i |-> 0]
NoLouds == [lbs |-> NoFid]
NoSearch == [zero |-> FALSE, num |-> 0, ng |-> 0, ok |-> 0, width |-> 0, turns |-> 0]
NoRbv == [byte_vec |-> << >>, last_byte_len |-> 0]
NoRaw == [rbv |-> NoRbv, sub |-> NoRbv, i |-> 0, size |-> 0]
NoTable == [bit_length |-> 0, last |-> << 0, 0, 0, 0 >>, overflow_checks |-> FALSE,
            alloc_ok |-> TRUE]

\* The inputs: a seed repeated up to length n.
Periodic(seed, n) == [k \in 1..n |-> seed[((k - 1) % Len(seed)) + 1]]

SliceInputs ==
    { Periodic(seed, n) :
        seed \in UNION { [1..k -> BOOLEAN] : k \in 1..MaxSeedLen }, n \in 0..MaxLen }

StrInputs ==
    { Periodic(seed, n) :
        seed \in UNION { [1..k -> Chars] : k \in 1..MaxStrSeedLen }, n \in 0..MaxStrLen }

Init ==
    /\ pc = "start"
    /\ src = NoSrc
    /\ fid = NoFid
    /\ builder = NoBuilder
    /\ op = "none"
    /\ arg = 0
    /\ res = Ok(0)
    /\ hist = NoHist
    /\ iter = NoIter
    /\ louds = NoLouds
    /\ opt_chunks = << >>
    /\ tasks = << >>
    /\ search = NoSearch
    /\ raw = NoRaw
    /\ table = NoTable

\* Fid::from(&bits[..])
FromSlice ==
    /\ pc = "start"
    /\ \E bits \in SliceInputs :
        /\ src' = [kind |-> "slice", bits |-> bits, text |-> << >>]
        /\ IF Fid_from_slice_panics(bits)
           THEN pc' = "failed" /\ res' = Panic /\ fid' = fid
           ELSE pc' = "built" /\ res' = Ok(0) /\ fid' = Fid_from_slice(bits)
    /\ op' = "from_slice"
    /\ arg' = 0
    /\ UNCHANGED builder
    /\ UNCHANGED << hist, iter, louds, opt_chunks, tasks >>
    /\ UNCHANGED << search, raw, table >>

\* Fid::from(s)
FromStr ==
    /\ pc = "start"
    /\ \E s \in StrInputs :
        /\ src' = [kind |-> "str", bits |-> << >>, text |-> s]
        /\ IF Fid_from_str_panics(s)
           THEN pc' = "failed" /\ res' = Panic /\ fid' = fid
           ELSE pc' = "built" /\ res' = Ok(0) /\ fid' = Fid_from_str(s)
    /\ op' = "from_str"
    /\ arg' = 0
    /\ UNCHANGED builder
    /\ UNCHANGED << hist, iter, louds, opt_chunks, tasks >>
    /\ UNCHANGED << search, raw, table >>

\* BitString::new(s), and str() of the result.
BitStringNew ==
    /\ pc = "start"
    /\ \E s \in StrInputs :
        /\ src' = [kind |-> "str", bits |-> << >>, text |-> s]
        /\ IF BitString_new_panics(s)
           THEN pc' = "failed" /\ res' = Panic
           ELSE pc' = "bit_string" /\ res' = Ok(BitString_new(s))
    /\ op' = "bit_string_new"
    /\ arg' = 0
    /\ UNCHANGED << fid, builder >>
    /\ UNCHANGED << hist, iter, louds, opt_chunks, tasks >>
    /\ UNCHANGED << search, raw, table >>

\* The arguments of the queries: in range and just out of range.
Args == 0..(Fid_len(fid) + 2)

\* A query of the Fid: it returns r and leaves the Fid as it is.
Call(name, a, r) ==
    /\ pc = "built"
    /\ pc' = "called"
    /\ op' = name
    /\ arg' = a
    /\ res' = r
    /\ UNCHANGED << src, fid, builder >>
    /\ UNCHANGED << hist, iter, louds, opt_chunks, tasks >>
    /\ UNCHANGED << search, raw, table >>

\* The caller has taken the result; the Fid can be queried again.
Return ==
    /\ pc = "called"
    /\ pc' = "built"
    /\ op' = "return"
    /\ arg' = 0
    /\ res' = Ok(0)
    /\ UNCHANGED << src, fid, builder >>
    /\ UNCHANGED << hist, iter, louds, opt_chunks, tasks >>
    /\ UNCHANGED << search, raw, table >>

Index == \E i \in Args : Call("index", i, Fid_index(fid, i))

Rank == \E i \in Args : Call("rank", i, Fid_rank(fid, i))

Rank0 == \E i \in Args : Call("rank0", i, Fid_rank0(fid, i))

Select == \E num \in Args : Call("select", num, Fid_select(fid, num))

Select0 == \E num \in Args : Call("select0", num, Fid_select0(fid, num))

FidLen == Call("len", 0, Ok(Fid_len(fid)))

Next ==
    \/ FromSlice
    \/ FromStr
    \/ BitStringNew
    \/ Index
    \/ Rank
    \/ Rank0
    \/ Select
    \/ Select0
    \/ FidLen
    \/ Return

Spec == Init /\ [][Next]_vars

(***************************************************************************)
(* Construction through the builder, and of a raw bit vector.              *)
(***************************************************************************)
\* RawBitVector::from_length(length)
RawFromLength ==
    /\ pc = "start"
    /\ \E length \in 0..MaxBuilderLen :
        /\ arg' = length
        /\ IF RawBitVector_from_length_panics(length)
           THEN pc' = "failed" /\ res' = Panic
           ELSE pc' = "raw" /\ res' = Ok(RawBitVector_from_length(length))
    /\ op' = "raw_from_length"
    /\ UNCHANGED << src, fid, builder >>
    /\ UNCHANGED << hist, iter, louds, opt_chunks, tasks >>
    /\ UNCHANGED << search, raw, table >>

\* FidBuilder::from_length(length)
BuilderFromLength ==
    /\ pc = "start"
    /\ \E length \in 0..MaxBuilderLen :
        /\ arg' = length
        /\ builder' = FidBuilder_from_length(length)
        /\ hist' = [seed |-> [k \in 1..length |-> FALSE], set |-> {}, added |-> << >>]
    /\ pc' = "builder"
    /\ op' = "from_length"
    /\ res' = Ok(0)
    /\ UNCHANGED << src, fid >>
    /\ UNCHANGED << iter, louds, opt_chunks, tasks >>
    /\ UNCHANGED << search, raw, table >>

BuilderStrInputs == UNION { [1..k -> Chars] : k \in 0..MaxBuilderStrLen }

\* The calls that have changed the builder.
BuilderCalls == Cardinality(hist.set) + Len(hist.added)

\* FidBuilder::from_bit_string(BitString::new(s))
BuilderFromBitString ==
    /\ pc = "start"
    /\ \E s \in BuilderStrInputs :
        /\ src' = [kind |-> "str", bits |-> << >>, text |-> s]
        /\ IF BitString_new_panics(s)
           THEN pc' = "failed" /\ res' = Panic /\ builder' = builder /\ hist' = hist
           ELSE pc' = "builder" /\ res' = Ok(0)
                /\ builder' = FidBuilder_from_bit_string(BitString_new(s))
                /\ hist' = [seed |-> [k \in 1..Len(SelectSeq(s, NotUnderscore)) |->
                                         SelectSeq(s, NotUnderscore)[k] = "1"],
                            set |-> {}, added |-> << >>]
    /\ op' = "from_bit_string"
    /\ arg' = 0
    /\ UNCHANGED fid
    /\ UNCHANGED << iter, louds, opt_chunks, tasks >>
    /\ UNCHANGED << search, raw, table >>

\* builder.set_bit(i)
SetBit ==
    /\ pc = "builder"
    /\ \E i \in 0..(FidBuilder_current_length(builder) + 1) :
        /\ \/ FidBuilder_set_bit_panics(builder, i)
           \/ i \in hist.set
           \/ BuilderCalls < MaxBuilderCalls
        /\ arg' = i
        /\ IF FidBuilder_set_bit_panics(builder, i)
           THEN pc' = "failed" /\ res' = Panic /\ builder' = builder /\ hist' = hist
           ELSE pc' = "builder" /\ res' = Ok(0) /\ builder' = FidBuilder_set_bit(builder, i)
                /\ hist' = [hist EXCEPT !.set = @ \cup {i}]
    /\ op' = "set_bit"
    /\ UNCHANGED << src, fid >>
    /\ UNCHANGED << iter, louds, opt_chunks, tasks >>
    /\ UNCHANGED << search, raw, table >>

\* builder.add_bit(b)
AddBit ==
    /\ pc = "builder"
    /\ BuilderCalls < MaxBuilderCalls
    /\ \E b \in BOOLEAN :
        /\ arg' = (IF b THEN 1 ELSE 0)
        /\ builder' = FidBuilder_add_bit(builder, b)
        /\ hist' = [hist EXCEPT !.added = Append(@, b)]
    /\ pc' = "builder"
    /\ op' = "add_bit"
    /\ res' = Ok(0)
    /\ UNCHANGED << src, fid >>
    /\ UNCHANGED << iter, louds, opt_chunks, tasks >>
    /\ UNCHANGED << search, raw, table >>

\* builder.build()
Build ==
    /\ pc = "builder"
    /\ IF FidBuilder_build_panics(builder)
       THEN pc' = "failed" /\ res' = Panic /\ fid' = fid
       ELSE pc' = "built" /\ res' = Ok(0) /\ fid' = FidBuilder_build(builder)
    /\ op' = "build"
    /\ arg' = 0
    /\ UNCHANGED << src, builder >>
    /\ UNCHANGED << hist, iter, louds, opt_chunks, tasks >>
    /\ UNCHANGED << search, raw, table >>

NextBuild ==
    \/ FromSlice
    \/ RawFromLength
    \/ BuilderFromLength
    \/ BuilderFromBitString
    \/ SetBit
    \/ AddBit
    \/ Build

SpecBuild == Init /\ [][NextBuild]_vars

(***************************************************************************)
(* Iteration over a Fid.                                                   *)
(***************************************************************************)
\* fid.iter(): a new iterator; arg counts the calls of next() on it.
Iter ==
    /\ pc \in {"built", "iter"}
    /\ pc' = "iter"
    /\ iter' = Fid_iter(fid)
    /\ op' = "iter"
    /\ arg' = 0
    /\ res' = Ok(0)
    /\ UNCHANGED << src, fid, builder, hist, louds, opt_chunks, tasks >>
    /\ UNCHANGED << search, raw, table >>

\* iter.next()
IterNext ==
    /\ pc = "iter"
    /\ arg < Fid_len(fid) + MaxNextPastEnd
    /\ pc' = "iter"
    /\ iter' = FidIter_next(fid, iter).iter
    /\ res' = FidIter_next(fid, iter).item
    /\ op' = "next"
    /\ arg' = arg + 1
    /\ UNCHANGED << src, fid, builder, hist, louds, opt_chunks, tasks >>
    /\ UNCHANGED << search, raw, table >>

NextIter ==
    \/ FromSlice
    \/ FromStr
    \/ Iter
    \/ IterNext

SpecIter == Init /\ [][NextIter]_vars

(***************************************************************************)
(* A Louds: construction from an LBS, then navigation.                     *)
(***************************************************************************)
LbsBits == UNION { [1..k -> {"0", "1"}] : k \in 0..MaxLbsLen }

\* b with one '_' put in after its first p characters; b itself for p = -1.
WithUnderscore(b, p) ==
    IF p = -1 THEN b
    ELSE [k \in 1..(Len(b) + 1) |->
             IF k <= p THEN b[k] ELSE IF k = p + 1 THEN "_" ELSE b[k - 1]]

\* LoudsBuilder::from_bit_string(BitString::new(s))
LoudsBuilderFromBitString ==
    /\ pc = "start"
    /\ \E b \in LbsBits : \E p \in -1..Len(b) : LET s == WithUnderscore(b, p) IN
        /\ src' = [kind |-> "str", bits |-> << >>, text |-> s]
        /\ IF BitString_new_panics(s)
           THEN pc' = "failed" /\ res' = Panic /\ builder' = builder
           ELSE IF LoudsBuilder_from_bit_string_panics(BitString_new(s))
           THEN pc' = "failed" /\ res' = Panic /\ builder' = builder
           ELSE /\ pc' = "louds_builder"
                /\ res' = Ok(0)
                /\ builder' = LoudsBuilder_from_bit_string(BitString_new(s)).bv_builder
    /\ op' = "louds_from_bit_string"
    /\ arg' = 0
    /\ UNCHANGED << fid, hist, iter, louds, opt_chunks, tasks >>
    /\ UNCHANGED << search, raw, table >>

\* builder.build()
LoudsBuild ==
    /\ pc = "louds_builder"
    /\ IF LoudsBuilder_build_panics([bv_builder |-> builder])
       THEN pc' = "failed" /\ res' = Panic /\ louds' = louds
       ELSE pc' = "louds" /\ res' = Ok(0)
            /\ louds' = LoudsBuilder_build([bv_builder |-> builder])
    /\ op' = "louds_build"
    /\ arg' = 0
    /\ UNCHANGED << src, fid, builder, hist, iter, opt_chunks, tasks >>
    /\ UNCHANGED << search, raw, table >>

\* Node numbers and indices: those of the Louds and some beyond.
LoudsArgs == 0..(Fid_len(louds.lbs) + 1)

\* A query of the Louds: it returns r and leaves the Louds as it is.
LoudsCall(name, a, r) ==
    /\ pc = "louds"
    /\ pc' = "louds_called"
    /\ op' = name
    /\ arg' = a
    /\ res' = r
    /\ UNCHANGED << src, fid, builder, hist, iter, louds, opt_chunks, tasks >>
    /\ UNCHANGED << search, raw, table >>

LoudsReturn ==
    /\ pc = "louds_called"
    /\ pc' = "louds"
    /\ op' = "return"
    /\ arg' = 0
    /\ res' = Ok(0)
    /\ UNCHANGED << src, fid, builder, hist, iter, louds, opt_chunks, tasks >>
    /\ UNCHANGED << search, raw, table >>

NodeNumToIndex ==
    \E n \in LoudsArgs : LoudsCall("node_num_to_index", n, Louds_node_num_to_index(louds, n))

IndexToNodeNum ==
    \E i \in LoudsArgs : LoudsCall("index_to_node_num", i, Louds_index_to_node_num(louds, i))

ChildToParent ==
    \E i \in LoudsArgs : LoudsCall("child_to_parent", i, Louds_child_to_parent(louds, i))

ParentToChildren ==
    \E n \in LoudsArgs : LoudsCall("parent_to_children", n, Louds_parent_to_children(louds, n))

NextLouds ==
    \/ LoudsBuilderFromBitString
    \/ LoudsBuild
    \/ NodeNumToIndex
    \/ IndexToNodeNum
    \/ ChildToParent
    \/ ParentToChildren
    \/ LoudsReturn

SpecLouds == Init /\ [][NextLouds]_vars

(***************************************************************************)
(* Chunks::new on a worker pool: one task per chunk, run in any order and  *)
(* interleaving, then the sequential pass once every task has ended.       *)
(***************************************************************************)
\* The raw bit vector Fid::build makes of the bits of the source.
SrcRbv ==
    RawBitVector_new(Fid_from_slice_byte_vec(src.bits), 0,
                     Fid_from_slice_last_byte_len(src.bits))

NoChunk == [value |-> 0, length |-> 0, blocks |-> [blocks |-> << >>, blocks_cnt |-> 0]]

\* Chunks::new(&rbv) up to the start of the tasks.
ChunksNewStart ==
    /\ pc = "start"
    /\ \E bits \in { b \in SliceInputs : Len(b) >= 1 } :
        /\ src' = [kind |-> "slice", bits |-> bits, text |-> << >>]
        /\ LET rbv == RawBitVector_new(Fid_from_slice_byte_vec(bits), 0,
                                       Fid_from_slice_last_byte_len(bits))
           IN  /\ opt_chunks' = Chunks_new_slots(rbv)
               /\ tasks' = [k \in 1..calc_chunks_cnt(RawBitVector_len(rbv)) |->
                               [pc |-> "ready", chunk |-> NoChunk]]
    /\ pc' = "phase1"
    /\ op' = "chunks_new"
    /\ arg' = 0
    /\ res' = Ok(0)
    /\ UNCHANGED << fid, builder, hist, iter, louds >>
    /\ UNCHANGED << search, raw, table >>

\* The task of one chunk computes its chunk from rbv.
TaskCompute ==
    /\ pc = "phase1"
    /\ \E k \in 1..Len(tasks) :
        /\ tasks[k].pc = "ready"
        /\ arg' = k - 1
        /\ IF Chunks_task_panics(SrcRbv, k - 1)
           THEN pc' = "failed" /\ res' = Panic /\ tasks' = tasks
           ELSE /\ pc' = "phase1"
                /\ res' = Ok(0)
                /\ tasks' = [tasks EXCEPT ![k] =
                                [pc |-> "computed", chunk |-> Chunks_task(SrcRbv, k - 1)]]
    /\ op' = "task_compute"
    /\ UNCHANGED << src, fid, builder, hist, iter, louds, opt_chunks >>
    /\ UNCHANGED << search, raw, table >>

\* The task stores its chunk in its slot and ends.
TaskWrite ==
    /\ pc = "phase1"
    /\ \E k \in 1..Len(tasks) :
        /\ tasks[k].pc = "computed"
        /\ arg' = k - 1
        /\ opt_chunks' = Chunks_slot_write(opt_chunks, k - 1, tasks[k].chunk)
        /\ tasks' = [tasks EXCEPT ![k].pc = "done"]
    /\ op' = "task_write"
    /\ UNCHANGED << pc, src, fid, builder, res, hist, iter, louds >>
    /\ UNCHANGED << search, raw, table >>

\* for_each has returned (every task has ended): unwrap the slots and run
\* the sequential pass.
PrefixSum ==
    /\ pc = "phase1"
    /\ \A k \in 1..Len(tasks) : tasks[k].pc = "done"
    /\ IF Chunks_unwrap_panics(opt_chunks)
       THEN pc' = "failed" /\ res' = Panic
       ELSE /\ pc' = "chunks_done"
            /\ res' = Ok([chunks |-> Chunks_prefix_sum(Chunks_unwrap(opt_chunks),
                                                       Len(opt_chunks)),
                          chunks_cnt |-> Len(opt_chunks)])
    /\ op' = "prefix_sum"
    /\ arg' = 0
    /\ UNCHANGED << src, fid, builder, hist, iter, louds, opt_chunks, tasks >>
    /\ UNCHANGED << search, raw, table >>

NextChunks ==
    \/ ChunksNewStart
    \/ TaskCompute
    \/ TaskWrite
    \/ PrefixSum

SpecChunks == Init /\ [][NextChunks]_vars

(***************************************************************************)
(* select / select0 one step at a time: up to the loop, each turn of the   *)
(* loop, and the return after it.                                          *)
(***************************************************************************)
\* select(num) or select0(num) from its call to the loop, or to its return
\* when the loop is not reached.
SelectEnter ==
    /\ pc = "built"
    /\ \E zero \in BOOLEAN : \E num \in Args :
        /\ op' = (IF zero THEN "select0" ELSE "select")
        /\ arg' = num
        /\ IF (IF zero THEN Fid_select0_enters_loop(fid, num)
                       ELSE Fid_select_enters_loop(fid, num))
           THEN /\ pc' = "loop"
                /\ res' = Ok(0)
                /\ search' = [zero |-> zero, num |-> num, ng |-> 0, ok |-> Fid_len(fid) - 1,
                              width |-> Fid_len(fid) - 1, turns |-> 0]
           ELSE /\ pc' = "called"
                /\ res' = (IF zero THEN Fid_select0(fid, num) ELSE Fid_select(fid, num))
                /\ search' = search
    /\ UNCHANGED << src, fid, builder, hist, iter, louds, opt_chunks, tasks, raw, table >>

\* One turn of `while ok - ng > 1`; rank(mid) or rank0(mid) may panic.
SelectTurn ==
    /\ pc = "loop"
    /\ search.ok - search.ng > 1
    /\ LET mid == (search.ok + search.ng) \div 2
           r == IF search.zero THEN Fid_rank0(fid, mid) ELSE Fid_rank(fid, mid)
           t == IF search.zero
                THEN Fid_select0_turn(fid, search.num, search.ng, search.ok)
                ELSE Fid_select_turn(fid, search.num, search.ng, search.ok)
       IN  IF r.tag = "panic"
           THEN pc' = "failed" /\ res' = Panic /\ search' = search
           ELSE /\ pc' = "loop"
                /\ res' = Ok(0)
                /\ search' = [search EXCEPT !.ng = t.ng, !.ok = t.ok,
                                            !.width = search.ok - search.ng,
                                            !.turns = @ + 1]
    /\ op' = "select_turn"
    /\ UNCHANGED << src, fid, builder, arg, hist, iter, louds, opt_chunks, tasks, raw, table >>

\* The loop's condition is false: Some(ok).
SelectLeave ==
    /\ pc = "loop"
    /\ ~(search.ok - search.ng > 1)
    /\ pc' = "called"
    /\ op' = (IF search.zero THEN "select0" ELSE "select")
    /\ res' = Some(search.ok)
    /\ UNCHANGED << src, fid, builder, arg, hist, iter, louds, opt_chunks, tasks, raw, table >>
    /\ UNCHANGED search

NextSelect ==
    \/ FromSlice
    \/ SelectEnter
    \/ SelectTurn
    \/ SelectLeave

SpecSelect == Init /\ [][NextSelect]_vars

(***************************************************************************)
(* A RawBitVector on its own: made by from_length or from_bit_string,      *)
(* changed by set_bit, copied from by copy_sub.  src.bits holds the bits   *)
(* the calls so far have asked for.                                        *)
(***************************************************************************)
\* RawBitVector::from_length(length)
RbvFromLength ==
    /\ pc = "start"
    /\ \E length \in 0..MaxRawLen :
        /\ arg' = length
        /\ IF RawBitVector_from_length_panics(length)
           THEN pc' = "failed" /\ res' = Panic /\ raw' = raw /\ src' = src
           ELSE /\ pc' = "rbv"
                /\ res' = Ok(0)
                /\ raw' = [raw EXCEPT !.rbv = RawBitVector_from_length(length)]
                /\ src' = [kind |-> "raw", bits |-> [k \in 1..length |-> FALSE],
                           text |-> << >>]
    /\ op' = "rbv_from_length"
    /\ UNCHANGED << fid, builder, hist, iter, louds, opt_chunks, tasks, search, table >>

\* The BitStrings given to RawBitVector::from_bit_string.
RawStrInputs ==
    { Periodic(seed, n) :
        seed \in UNION { [1..k -> {"0", "1"}] : k \in 1..MaxStrSeedLen }, n \in 0..MaxRawLen }

\* RawBitVector::from_bit_string(&bit_str); it starts with from_length.
RbvFromBitString ==
    /\ pc = "start"
    /\ \E s \in RawStrInputs :
        /\ arg' = Len(s)
        /\ IF RawBitVector_from_length_panics(Len(s))
           THEN pc' = "failed" /\ res' = Panic /\ raw' = raw /\ src' = src
           ELSE /\ pc' = "rbv"
                /\ res' = Ok(0)
                /\ raw' = [raw EXCEPT !.rbv = RawBitVector_from_bit_string(s)]
                /\ src' = [kind |-> "raw", bits |-> [k \in 1..Len(s) |-> s[k] = "1"],
                           text |-> << >>]
    /\ op' = "rbv_from_bit_string"
    /\ UNCHANGED << fid, builder, hist, iter, louds, opt_chunks, tasks, search, table >>

\* rbv.set_bit(i)
RbvSetBit ==
    /\ pc = "rbv"
    /\ \E i \in 0..RawBitVector_length(raw.rbv) :
        /\ arg' = i
        /\ IF validate_index_panics(raw.rbv, i)
           THEN pc' = "failed" /\ res' = Panic /\ raw' = raw /\ src' = src
           ELSE /\ pc' = "rbv"
                /\ res' = Ok(0)
                /\ raw' = [raw EXCEPT !.rbv = RawBitVector_set_bit(raw.rbv, i)]
                /\ src' = [src EXCEPT !.bits[i + 1] = TRUE]
    /\ op' = "rbv_set_bit"
    /\ UNCHANGED << fid, builder, hist, iter, louds, opt_chunks, tasks, search, table >>

\* rbv.copy_sub(i, size): a new vector; rbv stays as it is.  The ranges
\* tried end at most one past the end of rbv.
RbvCopySub ==
    /\ pc = "rbv"
    /\ \E i \in 0..RawBitVector_length(raw.rbv) :
       \E size \in 0..(RawBitVector_length(raw.rbv) + 1 - i) :
        /\ arg' = i
        /\ IF copy_sub_panics(raw.rbv, i, size)
           THEN pc' = "failed" /\ res' = Panic
                /\ raw' = [raw EXCEPT !.sub = NoRbv, !.i = i, !.size = size]
           ELSE pc' = "rbv_sub" /\ res' = Ok(0)
                /\ raw' = [raw EXCEPT !.sub = copy_sub(raw.rbv, i, size), !.i = i, !.size = size]
    /\ op' = "copy_sub"
    /\ UNCHANGED << src, fid, builder, hist, iter, louds, opt_chunks, tasks, search, table >>

\* The caller goes on with the vector copy_sub returned.
RbvTakeSub ==
    /\ pc = "rbv_sub"
    /\ pc' = "rbv"
    /\ op' = "take_sub"
    /\ arg' = 0
    /\ res' = Ok(0)
    /\ raw' = [rbv |-> raw.sub, sub |-> NoRbv, i |-> 0, size |-> 0]
    /\ src' = [src EXCEPT !.bits = [k \in 1..raw.size |-> src.bits[raw.i + k]]]
    /\ UNCHANGED << fid, builder, hist, iter, louds, opt_chunks, tasks, search, table >>

NextRaw ==
    \/ RbvFromLength
    \/ RbvFromBitString
    \/ RbvSetBit
    \/ RbvCopySub
    \/ RbvTakeSub

SpecRaw == Init /\ [][NextRaw]_vars

(***************************************************************************)
(* A PopcountTable on its own, of any width a u8 can ask for up to         *)
(* MaxTableWidth, looked up with targets from the whole of u64.            *)
(***************************************************************************)
\* PopcountTable::new(bit_length), in a build with or without overflow
\* checks, with an allocator that grants the table or refuses it.
TableNew ==
    /\ pc = "start"
    /\ \E bit_length \in 0..MaxTableWidth : \E overflow_checks, alloc_ok \in BOOLEAN :
        /\ arg' = bit_length
        /\ \/ alloc_ok
           \/ /\ ~PopcountTable_new_u64_panics(bit_length, overflow_checks)
              /\ PopcountTable_alloc_may_fail(
                     PopcountTable_last_target(bit_length, overflow_checks).val)
        /\ IF PopcountTable_new_u64_panics(bit_length, overflow_checks) \/ ~alloc_ok
           THEN pc' = "failed" /\ res' = Panic
                /\ table' = [table EXCEPT !.overflow_checks = overflow_checks,
                                          !.alloc_ok = alloc_ok]
           ELSE pc' = "table" /\ res' = Ok(0)
                /\ table' = PopcountTable_new_u64(bit_length, overflow_checks)
    /\ op' = "table_new"
    /\ UNCHANGED << src, fid, builder, hist, iter, louds, opt_chunks, tasks, search, raw >>

\* The targets looked up: the small ones, 2^k - 1, 2^k and 2^k + 2^j for
\* every k, and u64::MAX.
Targets ==
    { U64_of(x) : x \in 0..16 }
        \cup { U64_one_shl(k) : k \in 0..63 }
        \cup { U64_minus_1(U64_one_shl(k)) : k \in 0..63 }
        \cup UNION { { [w \in 1..4 |-> U64_one_shl(k)[w] + U64_one_shl(j)[w]] :
                         j \in {0, 15, 16, 31, 32, 47, 48} \cap 0..(k - 1) } :
                       k \in 1..63 }
        \cup { << 65535, 65535, 65535, 65535 >> }

\* table.popcount(target)
TablePopcount ==
    /\ pc = "table"
    /\ \E target \in Targets :
        /\ arg' = target
        /\ IF PopcountTable_popcount_u64_panics(table, target)
           THEN pc' = "failed" /\ res' = Panic
           ELSE pc' = "table_called" /\ res' = Ok(PopcountTable_popcount_u64(table, target))
    /\ op' = "table_popcount"
    /\ UNCHANGED << src, fid, builder, hist, iter, louds, opt_chunks, tasks, search, raw >>
    /\ UNCHANGED table

NextTable ==
    \/ TableNew
    \/ TablePopcount

SpecTable == Init /\ [][NextTable]_vars

(***************************************************************************)
(* What the bit sequence itself says: the bits the Fid was made from, and  *)
(* counts and positions found by looking at every bit.                     *)
(***************************************************************************)
\* The bits of the source, index 0 first.
SrcBits ==
    IF src.kind = "slice" THEN src.bits
    ELSE LET t == SelectSeq(src.text, NotUnderscore) IN [k \in 1..Len(t) |-> t[k] = "1"]

\* The number of positions j <= i with bits[j] = v.
CountUpTo(bits, v, i) == Cardinality({ j \in 0..i : j < Len(bits) /\ bits[j + 1] = v })

Total(bits, v) == CountUpTo(bits, v, Len(bits) - 1)

\* The position of the k-th bit of value v (1 <= k <= Total(bits, v)).
KthPos(bits, v, k) ==
    CHOOSE p \in 0..(Len(bits) - 1) : bits[p + 1] = v /\ CountUpTo(bits, v, p) = k

Queried(name) == pc = "called" /\ op = name

(***************************************************************************)
(* Rank, select and their relations.                                       *)
(***************************************************************************)
\* C1: for every non-empty bit sequence B of length N and every i in [0, N),
\* rank(i) of the Fid built from B is the number of positions j <= i with
\* B[j] = 1.
C1_RankCountsOnes ==
    (Queried("rank") /\ arg < Len(SrcBits)) => res = Ok(CountUpTo(SrcBits, TRUE, arg))

\* rank of the last bit of a partial last chunk, where the chunk size is no
\* multiple of the block size, counted right.
C1_Witness ==
    /\ Queried("rank")
    /\ calc_chunk_size(Len(SrcBits)) % calc_block_size(Len(SrcBits)) # 0
    /\ Len(SrcBits) % calc_chunk_size(Len(SrcBits)) # 0
    /\ arg = Len(SrcBits) - 1
    /\ arg >= calc_chunk_size(Len(SrcBits))
    /\ res = Ok(CountUpTo(SrcBits, TRUE, arg))
    /\ res.val > fid.chunks.chunks[1].value

\* What select(k) / select0(k) of the bit value v must return, k in [0, N].
SelectExpected(bits, v, k) ==
    IF k = 0 THEN Some(0)
    ELSE IF k <= Total(bits, v) THEN Some(KthPos(bits, v, k))
    ELSE None

\* C2: for k in [0, N], select(k) is Some(0) when k = 0, Some(position of
\* the k-th 1-bit) when 1 <= k <= popcount(B), and None exactly when
\* k > popcount(B); select0(k) likewise with the 0-bits.
C2_SelectResult ==
    /\ (Queried("select") /\ arg <= Len(SrcBits)) =>
          /\ res = SelectExpected(SrcBits, TRUE, arg)
          /\ (res = None) <=> (arg > Total(SrcBits, TRUE))
    /\ (Queried("select0") /\ arg <= Len(SrcBits)) =>
          /\ res = SelectExpected(SrcBits, FALSE, arg)
          /\ (res = None) <=> (arg > Total(SrcBits, FALSE))

\* select finds a 1-bit of the second chunk.
C2_Witness ==
    /\ Queried("select")
    /\ arg >= 2
    /\ res.tag = "some"
    /\ res.val >= calc_chunk_size(Len(SrcBits))
    /\ SrcBits[res.val + 1] = TRUE

\* i is the smallest index whose rank (rank0 when v is FALSE) is k.
SmallestWithRank(v, i, k) ==
    LET r(j) == IF v THEN Fid_rank(fid, j) ELSE Fid_rank0(fid, j)
    IN  /\ r(i) = Ok(k)
        /\ \A j \in 0..(i - 1) : r(j) # Ok(k)

\* C3 as stated: whenever select(k) returns Some(i), i is the smallest index
\* with rank(i) = k, and likewise select0 with rank0, for every k in [0, N],
\* k = 0 included.
C3_Original ==
    /\ (Queried("select") /\ res.tag = "some") => SmallestWithRank(TRUE, res.val, arg)
    /\ (Queried("select0") /\ res.tag = "some") => SmallestWithRank(FALSE, res.val, arg)

\* C3 amended: whenever select(k) returns Some(i) for k in [1, N], i is the
\* smallest index with rank(i) = k, and likewise select0 with rank0; for
\* k = 0 the result is Some(0), and rank(0) = 0 only if bit 0 is 0
\* (rank0(0) = 0 only if bit 0 is 1).
C3_SelectSmallest ==
    /\ (Queried("select") /\ res.tag = "some" /\ arg >= 1) =>
          SmallestWithRank(TRUE, res.val, arg)
    /\ (Queried("select0") /\ res.tag = "some" /\ arg >= 1) =>
          SmallestWithRank(FALSE, res.val, arg)
    /\ (Queried("select") /\ arg = 0) =>
          /\ res = Some(0)
          /\ (Fid_rank(fid, 0) = Ok(0)) <=> (SrcBits[1] = FALSE)
    /\ (Queried("select0") /\ arg = 0) =>
          /\ res = Some(0)
          /\ (Fid_rank0(fid, 0) = Ok(0)) <=> (SrcBits[1] = TRUE)

\* select0 finds a 0-bit that is neither the first bit nor the first 0-bit.
C3_Witness ==
    /\ Queried("select0")
    /\ arg >= 2
    /\ res.tag = "some"
    /\ res.val > arg
    /\ SmallestWithRank(FALSE, res.val, arg)

\* C4: for every i in [0, N), rank0(i) is the number of 0-bits in [0, i],
\* rank(i) + rank0(i) = i + 1, and (i + 1) - rank(i) does not underflow.
C4_Rank0Complement ==
    (Queried("rank0") /\ arg < Len(SrcBits)) =>
        /\ res = Ok(CountUpTo(SrcBits, FALSE, arg))
        /\ LET r == Fid_rank(fid, arg)
           IN  /\ r.tag = "ok"
               /\ r.val <= arg + 1
               /\ r.val + res.val = arg + 1

\* rank0 of a position with 0-bits and 1-bits before it.
C4_Witness ==
    /\ Queried("rank0")
    /\ arg < Len(SrcBits)
    /\ res.tag = "ok"
    /\ res.val > 0
    /\ res.val < arg + 1

\* C5: for every i with B[i] = 1 and k = rank(i), select(k) is defined,
\* select(k) <= i and rank(select(k)) = k; for every i with B[i] = 0 and
\* k = rank0(i), select0(k) is defined, select0(k) <= i and
\* rank0(select0(k)) = k.
C5_SelectRankInverse ==
    /\ (Queried("rank") /\ arg < Len(SrcBits) /\ SrcBits[arg + 1] = TRUE) =>
          /\ res.tag = "ok"
          /\ LET s1 == Fid_select(fid, res.val)
             IN  /\ s1.tag = "some"
                 /\ s1.val <= arg
                 /\ Fid_rank(fid, s1.val) = Ok(res.val)
    /\ (Queried("rank0") /\ arg < Len(SrcBits) /\ SrcBits[arg + 1] = FALSE) =>
          /\ res.tag = "ok"
          /\ LET s0 == Fid_select0(fid, res.val)
             IN  /\ s0.tag = "some"
                 /\ s0.val <= arg
                 /\ Fid_rank0(fid, s0.val) = Ok(res.val)

\* rank of a 1-bit that is not the first 1-bit, and select of that rank.
C5_Witness ==
    /\ Queried("rank")
    /\ arg < Len(SrcBits)
    /\ SrcBits[arg + 1] = TRUE
    /\ res.tag = "ok"
    /\ res.val >= 2
    /\ Fid_select(fid, res.val) = Some(arg)

\* C6 as stated: for all k1 < k2 in [0, N] for which select(k1) and
\* select(k2) are both Some, select(k1) < select(k2); likewise select0.
C6_Original ==
    /\ (Queried("select") /\ res.tag = "some") =>
          \A k1 \in 0..(arg - 1) :
              LET s1 == Fid_select(fid, k1) IN s1.tag = "some" => s1.val < res.val
    /\ (Queried("select0") /\ res.tag = "some") =>
          \A k1 \in 0..(arg - 1) :
              LET s1 == Fid_select0(fid, k1) IN s1.tag = "some" => s1.val < res.val

\* C6 amended: for all k1 < k2 in [1, N] for which select(k1) and select(k2)
\* are both Some, select(k1) < select(k2); select(0) = Some(0) <= select(k2),
\* with equality exactly when k2 = 1 and bit 0 is 1; likewise select0 (with
\* equality exactly when k2 = 1 and bit 0 is 0).
C6_SelectIncreasing ==
    /\ (Queried("select") /\ res.tag = "some" /\ arg >= 1) =>
          /\ \A k1 \in 1..(arg - 1) :
                LET s1 == Fid_select(fid, k1) IN s1.tag = "some" => s1.val < res.val
          /\ Fid_select(fid, 0) = Some(0)
          /\ (res.val = 0) <=> (arg = 1 /\ SrcBits[1] = TRUE)
    /\ (Queried("select0") /\ res.tag = "some" /\ arg >= 1) =>
          /\ \A k1 \in 1..(arg - 1) :
                LET s1 == Fid_select0(fid, k1) IN s1.tag = "some" => s1.val < res.val
          /\ Fid_select0(fid, 0) = Some(0)
          /\ (res.val = 0) <=> (arg = 1 /\ SrcBits[1] = FALSE)

\* select of the third 1-bit, beyond the first two.
C6_Witness ==
    /\ Queried("select")
    /\ arg = 3
    /\ res.tag = "some"
    /\ Fid_select(fid, 1).tag = "some"
    /\ Fid_select(fid, 2).tag = "some"
    /\ Fid_select(fid, 1).val < Fid_select(fid, 2).val
    /\ Fid_select(fid, 2).val < res.val

\* C7: access(i) / fid[i], rank(i) and rank0(i) fail for every i >= N,
\* select(k) and select0(k) fail for every k > N, and k in (popcount, N]
\* gives None instead of a failure.
C7_OutOfRange ==
    /\ (pc = "called" /\ op \in {"index", "rank", "rank0"} /\ arg >= Len(SrcBits)) =>
          res = Panic
    /\ (pc = "called" /\ op \in {"select", "select0"} /\ arg > Len(SrcBits)) =>
          res = Panic
    /\ (Queried("select") /\ Total(SrcBits, TRUE) < arg /\ arg <= Len(SrcBits)) =>
          res = None
    /\ (Queried("select0") /\ Total(SrcBits, FALSE) < arg /\ arg <= Len(SrcBits)) =>
          res = None

\* select0 of N + 1 on a Fid with 0-bits has failed.
C7_Witness ==
    /\ Queried("select0")
    /\ arg = Len(SrcBits) + 1
    /\ Total(SrcBits, FALSE) > 0
    /\ res = Panic

\* C8: Fid::from(bits) of a non-empty bool slice has len() = bits.len() and
\* fid[i] = bits[i] for every i < len(); for a bit string, after removing
\* every '_', fid[i] is true iff the character at position i is '1' (the
\* text is read left to right).
C8_ConstructionRoundTrip ==
    /\ (pc = "built" /\ op = "from_slice") =>
          /\ Fid_len(fid) = Len(src.bits)
          /\ \A i \in 0..(Fid_len(fid) - 1) : Fid_index(fid, i) = Ok(src.bits[i + 1])
    /\ (pc = "built" /\ op = "from_str") =>
          LET t == SelectSeq(src.text, NotUnderscore)
          IN  /\ Fid_len(fid) = Len(t)
              /\ \A i \in 0..(Len(t) - 1) : Fid_index(fid, i) = Ok(t[i + 1] = "1")

\* A Fid of two or more whole bytes, made from a slice that starts 1, 0.
C8_Witness ==
    /\ pc = "built"
    /\ op = "from_slice"
    /\ Len(src.bits) >= 16
    /\ Len(src.bits) % 8 = 0
    /\ src.bits[1] = TRUE
    /\ src.bits[2] = FALSE
    /\ Fid_index(fid, 0) = Ok(TRUE)
    /\ Fid_index(fid, 1) = Ok(FALSE)

\* C9: Fid::from of an empty bool slice fails, build() of a builder whose
\* current length is 0 fails, and RawBitVector::from_length(0) fails; no
\* vector is returned.
C9_EmptySourceFails ==
    /\ (op = "from_slice" /\ src.bits = << >>) =>
          (pc = "failed" /\ res = Panic /\ fid = NoFid)
    /\ (op = "build" /\ FidBuilder_current_length(builder) = 0) =>
          (pc = "failed" /\ res = Panic /\ fid = NoFid)
    /\ (op = "raw_from_length" /\ arg = 0) =>
          (pc = "failed" /\ res = Panic)

\* build() of FidBuilder::from_length(0) without add_bit has failed.
C9_Witness ==
    /\ op = "build"
    /\ builder = FidBuilder_from_length(0)
    /\ pc = "failed"
    /\ fid = NoFid

\* C10: BitString::new(s) succeeds iff s consists only of '0', '1' and '_'
\* and contains at least one '0' or '1'; then str() is s with every '_'
\* removed, the other characters in their order.
C10_BitStringNew ==
    (op = "bit_string_new") =>
        LET s == src.text
            valid == /\ \A k \in 1..Len(s) : s[k] \in {"0", "1", "_"}
                     /\ \E k \in 1..Len(s) : s[k] \in {"0", "1"}
        IN  /\ (res.tag = "ok") <=> valid
            /\ valid => (pc = "bit_string" /\ res.val = SelectSeq(s, NotUnderscore))
            /\ ~valid => (pc = "failed" /\ res = Panic)

\* A text with '_' between digits has been accepted, and one of '_' only
\* would not be.
C10_Witness ==
    /\ op = "bit_string_new"
    /\ pc = "bit_string"
    /\ Len(src.text) >= 3
    /\ src.text[2] = "_"
    /\ Len(res.val) < Len(src.text)
    /\ Len(res.val) >= 2

(***************************************************************************)
(* Iteration.                                                              *)
(***************************************************************************)
\* C11: on a fresh iterator over a Fid of length N, the k-th call of next()
\* returns Some(fid[k - 1]) for k <= N and None for every k > N, no call
\* fails, and an iterator constructed anew (after any number of calls on an
\* earlier one) starts at index 0 again.
C11_IteratorFidelity ==
    /\ (pc = "iter" /\ op = "next") =>
          /\ res # Panic
          /\ (arg <= Len(SrcBits)) => res = Some(SrcBits[arg])
          /\ (arg > Len(SrcBits)) => res = None
    /\ (pc = "iter" /\ op = "iter") => iter.i = 0

\* The second call of next() after the last bit of a Fid of more than one
\* byte has returned None.
C11_Witness ==
    /\ pc = "iter"
    /\ op = "next"
    /\ Len(SrcBits) > 8
    /\ arg = Len(SrcBits) + 2
    /\ iter.i = Len(SrcBits)
    /\ res = None

(***************************************************************************)
(* LOUDS.                                                                  *)
(***************************************************************************)
\* The number of nodes of the tree: the 1-bits of the LBS.
NodeCount == Total(SrcBits, TRUE)

LoudsQueried(name) == pc = "louds_called" /\ op = name

\* C12: for every accepted LBS and every node number n in [1, node_count],
\* index_to_node_num(node_num_to_index(n)) = n, and node_num_to_index(1) = 0.
C12_LoudsRoundTrip ==
    (LoudsQueried("node_num_to_index") /\ 1 <= arg /\ arg <= NodeCount) =>
        /\ res.tag = "ok"
        /\ Louds_index_to_node_num(louds, res.val) = Ok(arg)
        /\ (arg = 1) => (res.val = 0)

\* The index of the third or a later node, behind 0-bits, and back.
C12_Witness ==
    /\ LoudsQueried("node_num_to_index")
    /\ arg >= 3
    /\ res.tag = "ok"
    /\ res.val > arg
    /\ Louds_index_to_node_num(louds, res.val) = Ok(arg)

\* C13: for every accepted LBS, every node number n in [1, node_count] and
\* every index c returned by parent_to_children(n), child_to_parent(c) = n.
C13_LoudsTreeConsistency ==
    (LoudsQueried("parent_to_children") /\ 1 <= arg /\ arg <= NodeCount) =>
        /\ res.tag = "ok"
        /\ \A k \in 1..Len(res.val) : Louds_child_to_parent(louds, res.val[k]) = Ok(arg)

\* A node other than the root with a child, whose parent is that node.
C13_Witness ==
    /\ LoudsQueried("parent_to_children")
    /\ arg >= 2
    /\ res.tag = "ok"
    /\ Len(res.val) >= 1
    /\ Louds_child_to_parent(louds, res.val[1]) = Ok(arg)

\* The conditions of an LBS, counted on the text without its '_'.
LbsValid(t) ==
    LET cnt(c, k) == Cardinality({ j \in 1..k : t[j] = c })
    IN  /\ Len(t) >= 2
        /\ t[1] = "1"
        /\ t[2] = "0"
        /\ \A k \in 1..Len(t) : cnt("0", k) <= cnt("1", k) + 1
        /\ cnt("0", Len(t)) = cnt("1", Len(t)) + 1

\* C14: LoudsBuilder::from_bit_string(bs) succeeds iff bs starts with "10",
\* every prefix of bs has count('0') <= count('1') + 1 and the whole of bs
\* has count('0') = count('1') + 1; every other bit string is rejected and
\* no builder and no Louds is returned.
C14_LbsValidation ==
    (op = "louds_from_bit_string") =>
        LET valid == LbsValid(SelectSeq(src.text, NotUnderscore))
        IN  /\ valid => (pc = "louds_builder" /\ builder # NoBuilder)
            /\ ~valid => (pc = "failed" /\ res = Panic /\ builder = NoBuilder
                                         /\ louds = NoLouds)

\* An LBS of three nodes or more, written with a '_', has been accepted.
C14_Witness ==
    /\ op = "louds_from_bit_string"
    /\ pc = "louds_builder"
    /\ \E k \in 1..Len(src.text) : src.text[k] = "_"
    /\ Len(builder.seed.bs) >= 7

\* The end of the run of 1-bits from position start on: the first position
\* from start on that holds a 0-bit, or the length when there is none.
RunEnd(bits, start) ==
    CHOOSE e \in start..Len(bits) :
        /\ e = Len(bits) \/ bits[e + 1] = FALSE
        /\ \A j \in start..(e - 1) : bits[j + 1] = TRUE

\* C15: for every accepted LBS and every node number n in [1, node_count],
\* parent_to_children(n) returns (it terminates, reading no bit past the
\* end of the LBS: the run ends at a 0-bit of the LBS) exactly the indices
\* of the maximal run of consecutive 1-bits that starts at select0(n) + 1,
\* in increasing order; the list is empty when the bit there is 0.
C15_ParentToChildren ==
    (LoudsQueried("parent_to_children") /\ 1 <= arg /\ arg <= NodeCount) =>
        LET start == KthPos(SrcBits, FALSE, arg) + 1
            end == RunEnd(SrcBits, start)
        IN  /\ start < Len(SrcBits)
            /\ end < Len(SrcBits)
            /\ res = Ok([k \in 1..(end - start) |-> start + k - 1])
            /\ (SrcBits[start + 1] = FALSE) => (res = Ok(<< >>))

\* The second node has two children or more.
C15_Witness ==
    /\ LoudsQueried("parent_to_children")
    /\ arg = 2
    /\ res.tag = "ok"
    /\ Len(res.val) >= 2
    /\ res.val[2] = res.val[1] + 1

\* C16: node_num_to_index(n) and parent_to_children(n) fail for n = 0 and
\* for every n > node_count, n = node_count + 1 (for which select0(n) is
\* still defined) included.
C16_NoSuchNode ==
    (/\ pc = "louds_called"
     /\ op \in {"node_num_to_index", "parent_to_children"}
     /\ (arg = 0 \/ arg > NodeCount)) => res = Panic

\* parent_to_children(node_count + 1), where select0 finds the last 0-bit,
\* has failed.
C16_Witness ==
    /\ LoudsQueried("parent_to_children")
    /\ arg = NodeCount + 1
    /\ SuccinctBitVector_select0(louds.lbs, arg) = Some(Len(SrcBits) - 1)
    /\ res = Panic

\* C17: index_to_node_num(idx) and child_to_parent(idx) fail whenever idx
\* is outside the LBS or lbs[idx] is 0, and child_to_parent(0) fails; for
\* every other idx they return rank(idx) and rank0(idx).
C17_LoudsIndex ==
    LET outside == arg >= Len(SrcBits)
        ok == ~outside /\ SrcBits[arg + 1] = TRUE
    IN  /\ LoudsQueried("index_to_node_num") =>
              /\ ~ok => res = Panic
              /\ ok => res = Ok(CountUpTo(SrcBits, TRUE, arg))
        /\ LoudsQueried("child_to_parent") =>
              /\ (~ok \/ arg = 0) => res = Panic
              /\ (ok /\ arg # 0) => res = Ok(CountUpTo(SrcBits, FALSE, arg))

\* child_to_parent of an index of a 0-bit inside the LBS has failed.
C17_Witness ==
    /\ LoudsQueried("child_to_parent")
    /\ arg > 0
    /\ arg < Len(SrcBits)
    /\ SrcBits[arg + 1] = FALSE
    /\ res = Panic

(***************************************************************************)
(* The parallel build.                                                     *)
(***************************************************************************)
\* C18: in whatever order and interleaving the per-chunk tasks run,
\* Chunks::new yields the chunks (values and blocks) of a sequential left
\* to right build; a task writes its own slot only (a slot is filled iff
\* its task has ended, and then with the chunk of that task), and when the
\* sequential pass unwraps the slots none is empty.
C18_ParallelBuildDeterminism ==
    /\ (pc = "chunks_done") =>
          /\ res = Ok(Chunks_new(SrcRbv))
          /\ \A k \in 1..Len(opt_chunks) : opt_chunks[k] # None
    /\ (pc \in {"phase1", "chunks_done"}) =>
          /\ Len(opt_chunks) = calc_chunks_cnt(Len(src.bits))
          /\ \A k \in 1..Len(opt_chunks) :
                /\ (opt_chunks[k] # None) <=> (tasks[k].pc = "done")
                /\ (opt_chunks[k] # None) => (opt_chunks[k] = Some(Chunks_task(SrcRbv, k - 1)))
    /\ (op \in {"task_compute", "task_write", "prefix_sum"}) => (pc # "failed")

\* Of three tasks the last has ended before the first has started, the
\* second being in between its two steps.
C18_Witness ==
    /\ pc = "phase1"
    /\ Len(tasks) = 3
    /\ tasks[1].pc = "ready"
    /\ tasks[2].pc = "computed"
    /\ tasks[3].pc = "done"
    /\ opt_chunks[1] = None
    /\ opt_chunks[3] # None

(***************************************************************************)
(* The builder.                                                            *)
(***************************************************************************)
\* Bit j of the vector the builder was told to build: the seed's bits, then
\* the added bits, and 1 wherever set_bit was called.
ToldBit(j) ==
    \/ j \in hist.set
    \/ (IF j < Len(hist.seed) THEN hist.seed[j + 1] ELSE hist.added[j - Len(hist.seed) + 1])

\* C19: for a builder seeded by from_length(n) or from_bit_string(s) and any
\* sequence of in-range set_bit calls (calls repeated and in any order),
\* the built vector has the seed's length and its bit j is 1 iff the seed's
\* bit j is 1 or set_bit(j) was called.
C19_SetBit ==
    (op = "build" /\ hist.added = << >> /\ Len(hist.seed) >= 1) =>
        /\ pc = "built"
        /\ Fid_len(fid) = Len(hist.seed)
        /\ \A j \in 0..(Len(hist.seed) - 1) :
              Fid_index(fid, j) = Ok(hist.seed[j + 1] \/ j \in hist.set)

\* A vector of 8 bits built after set_bit of two positions, the last bit
\* among them and the first bit not.
C19_Witness ==
    /\ op = "build"
    /\ pc = "built"
    /\ hist.added = << >>
    /\ Len(hist.seed) = 8
    /\ Cardinality(hist.set) = 2
    /\ 7 \in hist.set
    /\ 0 \notin hist.set
    /\ Fid_index(fid, 7) = Ok(TRUE)
    /\ Fid_index(fid, 0) = Ok(FALSE)

\* C20: for a builder of current length L (either seed kind) and any
\* sequence add_bit(b1), ..., add_bit(bm), m >= 1, the built vector has
\* length L + m, its first L bits are those of the builder before the
\* add_bit calls, and its bit L + k - 1 is bk, or 1 when set_bit was called
\* for that position afterwards; from_length(0) followed by an add_bit
\* builds.
C20_AddBit ==
    (op = "build" /\ Len(hist.added) >= 1) =>
        /\ pc = "built"
        /\ Fid_len(fid) = Len(hist.seed) + Len(hist.added)
        /\ \A j \in 0..(Len(hist.seed) + Len(hist.added) - 1) :
              Fid_index(fid, j) = Ok(ToldBit(j))
        /\ \A k \in 1..Len(hist.added) :
              (Len(hist.seed) + k - 1 \notin hist.set) =>
                  Fid_index(fid, Len(hist.seed) + k - 1) = Ok(hist.added[k])

\* from_length(8), add_bit(true), add_bit(false) and set_bit(9) have built
\* a vector of 10 bits, the last two in a second byte and both 1.
C20_Witness ==
    /\ op = "build"
    /\ pc = "built"
    /\ builder.seed.kind = "Length"
    /\ Len(hist.seed) = 8
    /\ hist.added = << TRUE, FALSE >>
    /\ hist.set = {9}
    /\ Fid_len(fid) = 10
    /\ Fid_index(fid, 8) = Ok(TRUE)
    /\ Fid_index(fid, 9) = Ok(TRUE)

\* The positions the calls so far should have recorded: those of the
\* successful set_bit calls and those of the add_bit(true) calls.
RecordedPositions ==
    hist.set \cup { Len(hist.seed) + k - 1 : k \in { k \in 1..Len(hist.added) : hist.added[k] } }

\* C21: set_bit(i) fails iff i >= the current length (seed length plus the
\* number of add_bit calls so far); a failed set_bit records nothing; after
\* any sequence of successful set_bit/add_bit calls every recorded position
\* is below the current length, so build() never fails while applying the
\* recorded bits.
C21_SetBitRange ==
    /\ (op = "set_bit") =>
          /\ (pc = "failed") <=> (arg >= Len(hist.seed) + Len(hist.added))
          /\ (pc = "failed") => (arg \notin builder.bits_set)
          /\ builder.bits_set = RecordedPositions
    /\ (op \in {"from_length", "from_bit_string", "set_bit", "add_bit", "build"}
        /\ (pc # "failed" \/ op \in {"set_bit", "build"})) =>
          /\ FidBuilder_current_length(builder) = Len(hist.seed) + Len(hist.added)
          /\ \A p \in builder.bits_set : p < FidBuilder_current_length(builder)
    /\ (op = "build") =>
          /\ \A bit \in builder.bits_set :
                ~validate_index_panics(FidBuilder_seed_rbv(builder), bit)
          /\ (FidBuilder_current_length(builder) >= 1) => (pc = "built")

\* A builder of length 3 (seed "01" and one add_bit) that recorded positions
\* 0 and 2, refused set_bit(3), and whose state is as before the refusal.
C21_Witness ==
    /\ op = "set_bit"
    /\ pc = "failed"
    /\ arg = 3
    /\ Len(hist.seed) = 2
    /\ hist.added = << TRUE >>
    /\ builder.bits_set = {0, 2}

\* floor(log2 N) for N >= 1, by its definition.
FloorLog2(N) == CHOOSE k \in 0..N : Pow2(k) <= N /\ N < Pow2(k + 1)

\* max(1, floor(log2 N)^2)
ChunkSizeOf(N) ==
    IF FloorLog2(N) * FloorLog2(N) >= 1 THEN FloorLog2(N) * FloorLog2(N) ELSE 1

\* The index of the last bit of chunk i (counted from 0) of a vector of N bits.
ChunkLastBit(N, i) ==
    IF (i + 1) * ChunkSizeOf(N) <= N THEN (i + 1) * ChunkSizeOf(N) - 1 ELSE N - 1

\* C22: with chunk_size = max(1, floor(log2 N)^2), Chunks::new produces
\* exactly ceil(N / chunk_size) chunks, every chunk has length chunk_size
\* except the last (N mod chunk_size, or chunk_size when divisible),
\* chunks[i].value is the number of 1-bits in [0, last bit of chunk i],
\* chunk values are non-decreasing and the last one is the total popcount.
C22_ChunkDirectory ==
    (pc = "built" /\ op \in {"from_slice", "from_str"}) =>
        LET N == Len(SrcBits)
            cs == ChunkSizeOf(N)
            chunks == fid.chunks.chunks
            cnt == Len(chunks)
        IN  /\ cnt * cs >= N
            /\ (cnt - 1) * cs < N
            /\ fid.chunks.chunks_cnt = cnt
            /\ \A i \in 0..(cnt - 2) : chunks[i + 1].length = cs
            /\ chunks[cnt].length = (IF N % cs = 0 THEN cs ELSE N % cs)
            /\ \A i \in 0..(cnt - 1) :
                  chunks[i + 1].value = CountUpTo(SrcBits, TRUE, ChunkLastBit(N, i))
            /\ \A i \in 1..(cnt - 1) : chunks[i].value <= chunks[i + 1].value
            /\ chunks[cnt].value = Total(SrcBits, TRUE)

\* A vector of 33 bits: chunks of 25 and 8 bits, with 1-bits in both.
C22_Witness ==
    /\ pc = "built"
    /\ op = "from_slice"
    /\ Len(SrcBits) = 33
    /\ Len(fid.chunks.chunks) = 2
    /\ fid.chunks.chunks[1].length = 25
    /\ fid.chunks.chunks[2].length = 8
    /\ fid.chunks.chunks[1].value >= 1
    /\ fid.chunks.chunks[2].value > fid.chunks.chunks[1].value
    /\ fid.chunks.chunks[2].value < 33

\* max(1, floor(log2 N) / 2)
BlockSizeOf(N) == IF FloorLog2(N) \div 2 >= 1 THEN FloorLog2(N) \div 2 ELSE 1

\* The number of 1-bits of bits[from..to] (positions counted from 0).
CountBetween(bits, from, to) ==
    Cardinality({ j \in from..to : j < Len(bits) /\ bits[j + 1] })

RECURSIVE SumLengths(_, _)
SumLengths(blocks, k) == IF k = 0 THEN 0 ELSE SumLengths(blocks, k - 1) + blocks[k].length

\* C23: for every chunk c and every block j of c, the block covers only
\* bits of chunk c (the block lengths of a chunk sum to the chunk's length,
\* each length <= block_size), blocks[j].value is the number of 1-bits from
\* the first bit of chunk c through the last bit of block j, so it lies in
\* [0, chunk_size], block values are non-decreasing within a chunk, and the
\* last block's value is the popcount of chunk c alone.
C23_BlockDirectory ==
    (pc = "built" /\ op \in {"from_slice", "from_str"}) =>
        LET N == Len(SrcBits)
            cs == ChunkSizeOf(N)
            bs == BlockSizeOf(N)
        IN  \A c \in 0..(Len(fid.chunks.chunks) - 1) :
                LET chunk == fid.chunks.chunks[c + 1]
                    blocks == chunk.blocks.blocks
                    cnt == Len(blocks)
                    first == c * cs
                IN  /\ chunk.blocks.blocks_cnt = cnt
                    /\ SumLengths(blocks, cnt) = chunk.length
                    /\ \A j \in 1..cnt :
                          /\ blocks[j].length <= bs
                          /\ first + SumLengths(blocks, j) - 1 <= ChunkLastBit(N, c)
                          /\ blocks[j].value =
                                CountBetween(SrcBits, first, first + SumLengths(blocks, j) - 1)
                          /\ blocks[j].value >= 0
                          /\ blocks[j].value <= cs
                    /\ \A j \in 1..(cnt - 1) : blocks[j].value <= blocks[j + 1].value
                    /\ blocks[cnt].value = CountBetween(SrcBits, first, ChunkLastBit(N, c))

\* C28: for every built vector and every i in [0, N), rank(i) trips no
\* internal check: the chunk index it uses is strictly below the chunk
\* count and the block index strictly below that chunk's block count (the
\* `i <= count` assertions of Chunks::access / Blocks::access are never met
\* with i = count), i - block_start < the block's length, the extracted
\* slice has at most 32 bits, the shift 32 - bits_to_use lies in [0, 31],
\* and the table lookup key is < 2^block_size.
C28_RankInternalChecks ==
    (Queried("rank") /\ arg < Fid_len(fid)) =>
        LET N == Fid_len(fid)
            cs == ChunkSizeOf(N)
            bs == BlockSizeOf(N)
            i_chunk == arg \div cs
            i_block == (arg - i_chunk * cs) \div bs
            blocks == fid.chunks.chunks[i_chunk + 1].blocks
            block_right == blocks.blocks[i_block + 1]
            pos_block_start == i_chunk * cs + i_block * bs
            bits_to_use == arg - pos_block_start + 1
            key == Shr32(as_u32(clone_sub(Fid_rbv(fid), pos_block_start, block_right.length)),
                         32 - bits_to_use)
        IN  /\ res # Panic
            /\ i_chunk < fid.chunks.chunks_cnt
            /\ i_chunk < Len(fid.chunks.chunks)
            /\ i_block < blocks.blocks_cnt
            /\ i_block < Len(blocks.blocks)
            /\ arg - pos_block_start < block_right.length
            /\ block_right.length <= 32
            /\ pos_block_start + block_right.length <= N
            /\ 0 <= 32 - bits_to_use
            /\ 32 - bits_to_use <= 31
            /\ key < Pow2(bs)
            /\ fid.table.bit_length = bs
            /\ key \in DOMAIN fid.table.table

\* rank(32) on a vector of 33 bits: the last block (index 3) of the last
\* chunk (index 1), both bits of the block used, both of them 1.
C28_Witness ==
    /\ Queried("rank")
    /\ Fid_len(fid) = 33
    /\ arg = 32
    /\ fid.chunks.chunks_cnt = 2
    /\ fid.chunks.chunks[2].blocks.blocks_cnt = 4
    /\ SrcBits[32]
    /\ SrcBits[33]
    /\ res.tag = "ok"
    /\ res.val >= 2

\* The node number of the parent of node n (n >= 2), by the queries.
ParentNode(n) ==
    Louds_child_to_parent(louds, Louds_node_num_to_index(louds, n).val).val

\* Following child_to_parent from node n reaches node 1 within k steps.
RECURSIVE RootWithin(_, _)
RootWithin(n, k) ==
    \/ n = 1
    \/ /\ k > 0
       /\ n >= 2
       /\ n <= NodeCount
       /\ RootWithin(ParentNode(n), k - 1)

\* C29: every bit string the LOUDS validator accepts encodes an ordered
\* tree: for every accepted LBS and every index c > 0 with lbs[c] = 1,
\* child_to_parent(c) is an existing node number strictly smaller than
\* index_to_node_num(c), so following child_to_parent repeatedly from any
\* node reaches the root (node 1) in finitely many steps and no node is its
\* own ancestor.
C29_ValidatorSufficient ==
    (LoudsQueried("child_to_parent") /\ arg > 0 /\ arg < Len(SrcBits) /\ SrcBits[arg + 1]) =>
        /\ res.tag = "ok"
        /\ 1 <= res.val
        /\ res.val <= NodeCount
        /\ res.val < Louds_index_to_node_num(louds, arg).val
        /\ RootWithin(Louds_index_to_node_num(louds, arg).val, NodeCount)

\* The indices parent_to_children(n) returns, as a set.
ChildrenOf(n) ==
    LET r == Louds_parent_to_children(louds, n)
    IN  { r.val[k] : k \in 1..Len(r.val) }

\* C30: for every accepted LBS and every index c > 0 with lbs[c] = 1, c is
\* contained in parent_to_children(child_to_parent(c)); the children lists
\* of distinct node numbers in [1, node_count] are disjoint and together
\* contain exactly the node_count - 1 non-root 1-bit indices.
C30_ParentChildrenInverse ==
    /\ (LoudsQueried("child_to_parent") /\ arg > 0 /\ arg < Len(SrcBits) /\ SrcBits[arg + 1]) =>
          /\ res.tag = "ok"
          /\ Louds_parent_to_children(louds, res.val).tag = "ok"
          /\ arg \in ChildrenOf(res.val)
    /\ (pc = "louds" /\ op = "louds_build") =>
          /\ \A n \in 1..NodeCount :
                /\ Louds_parent_to_children(louds, n).tag = "ok"
                /\ Cardinality(ChildrenOf(n)) = Len(Louds_parent_to_children(louds, n).val)
          /\ \A n, m \in 1..NodeCount : (n # m) => (ChildrenOf(n) \cap ChildrenOf(m) = {})
          /\ UNION { ChildrenOf(n) : n \in 1..NodeCount } =
                { c \in 1..(Len(SrcBits) - 1) : SrcBits[c + 1] }
          /\ Cardinality(UNION { ChildrenOf(n) : n \in 1..NodeCount }) = NodeCount - 1

\* The second child of a node other than the root, found among the
\* children of its parent.
C30_Witness ==
    /\ LoudsQueried("child_to_parent")
    /\ arg > 0
    /\ res.tag = "ok"
    /\ res.val >= 2
    /\ Cardinality(ChildrenOf(res.val)) >= 2
    /\ arg \in ChildrenOf(res.val)
    /\ arg - 1 \in ChildrenOf(res.val)
    /\ NodeCount >= 4

(***************************************************************************)
(* The binary search.                                                      *)
(***************************************************************************)
\* rank or rank0, as the search in progress uses it.
SearchRank(i) == IF search.zero THEN Fid_rank0(fid, i).val ELSE Fid_rank(fid, i).val

\* C24: in select(num) (and in select0 with rank0), whenever the loop is
\* reached, rank(ng) < num <= rank(ok) and 0 <= ng < ok <= N - 1 hold before
\* and after every turn of the loop, ok - ng is strictly smaller after
\* every turn, and the loop ends with ok - ng = 1, returning ok.
C24_BinarySearch ==
    /\ (pc = "loop") =>
          /\ 0 <= search.ng
          /\ search.ng < search.ok
          /\ search.ok <= Fid_len(fid) - 1
          /\ SearchRank(search.ng) < search.num
          /\ search.num <= SearchRank(search.ok)
          /\ search.turns <= Fid_len(fid)
    /\ (op = "select_turn") =>
          /\ pc = "loop"
          /\ search.ok - search.ng < search.width
    /\ (pc = "called" /\ search # NoSearch) =>
          /\ search.ok - search.ng = 1
          /\ res = Some(search.ok)
          /\ res = (IF search.zero THEN Fid_select0(fid, search.num)
                                   ELSE Fid_select(fid, search.num))

\* select(num) on a vector of 33 bits has taken five turns of the loop or
\* more, moving both ends, and returned ok.
C24_Witness ==
    /\ pc = "called"
    /\ op = "select"
    /\ Fid_len(fid) = 33
    /\ search.turns >= 5
    /\ search.ng > 0
    /\ search.ok < 32
    /\ search.ok - search.ng = 1
    /\ res = Some(search.ok)

(***************************************************************************)
(* The raw bit vector.                                                     *)
(***************************************************************************)
\* The bits of the last byte beyond last_byte_len are 0, and last_byte_len
\* is in [1, 8].
ZeroPadded(v) ==
    /\ v.last_byte_len \in 1..8
    /\ Len(v.byte_vec) >= 1
    /\ v.byte_vec[Len(v.byte_vec)] % Pow2(8 - v.last_byte_len) = 0

\* The number of indices i in [0, N) with access(i) = true.
AccessibleOnes(v) ==
    Cardinality({ i \in 0..(RawBitVector_length(v) - 1) : RawBitVector_access(v, i) })

\* C25: in every RawBitVector reachable through from_length,
\* from_bit_string, any sequence of in-range set_bit calls, and copy_sub,
\* all bits of the last byte at positions >= last_byte_len are 0 and
\* last_byte_len is in [1, 8]; popcount() (which counts whole bytes) equals
\* the number of indices i in [0, N) with access(i) = true, and length()
\* equals the requested length.
C25_ZeroPadding ==
    /\ (pc \in {"rbv", "rbv_sub"} \/ (pc = "failed" /\ op \in {"rbv_set_bit", "copy_sub"})) =>
          /\ ZeroPadded(raw.rbv)
          /\ RawBitVector_popcount(raw.rbv) = AccessibleOnes(raw.rbv)
          /\ RawBitVector_length(raw.rbv) = Len(src.bits)
    /\ (pc = "rbv_sub") =>
          /\ ZeroPadded(raw.sub)
          /\ RawBitVector_popcount(raw.sub) = AccessibleOnes(raw.sub)
          /\ RawBitVector_length(raw.sub) = raw.size

\* copy_sub(5, 3) of a vector whose bit 8, the one after the range, is 1:
\* the copy has 3 bits in its one byte, a 1-bit among them.
C25_Witness ==
    /\ pc = "rbv_sub"
    /\ raw.i = 5
    /\ raw.size = 3
    /\ Len(src.bits) = 10
    /\ src.bits[9]
    /\ src.bits[8]
    /\ raw.sub.last_byte_len = 3
    /\ RawBitVector_popcount(raw.sub) >= 1
    /\ RawBitVector_popcount(raw.rbv) >= 3

\* The byte of bits[8 (k - 1) .. 8 (k - 1) + 7], the first bit the most
\* significant, bits beyond the end taken as 0.
DirectByte(bits, k) ==
    LET b(m) == IF 8 * (k - 1) + m < Len(bits) /\ bits[8 * (k - 1) + m + 1]
                THEN Pow2(7 - m) ELSE 0
    IN  b(0) + b(1) + b(2) + b(3) + b(4) + b(5) + b(6) + b(7)

\* The raw bit vector of a non-empty sequence of bits.
DirectRbv(bits) ==
    [byte_vec |-> [k \in 1..((Len(bits) + 7) \div 8) |-> DirectByte(bits, k)],
     last_byte_len |-> IF Len(bits) % 8 = 0 THEN 8 ELSE Len(bits) % 8]

\* bits[i .. i + size - 1], positions counted from 0.
Window(bits, i, size) == [k \in 1..size |-> bits[i + k]]

\* C26: for every raw bit vector of length N and all i, size with i < N,
\* size >= 1 and i + size <= N, copy_sub(i, size) returns a vector equal
\* (same bytes, same last-byte length) to the vector built directly from
\* bits i .. i+size-1 of the original, for byte-aligned and unaligned i
\* alike and without changing the original; copy_sub fails when size = 0,
\* when i >= N, or when i + size > N.
C26_CopySub ==
    (op = "copy_sub") =>
        LET N == Len(src.bits)
            w == Window(src.bits, raw.i, raw.size)
        IN  /\ (pc = "failed") <=> (raw.size = 0 \/ raw.i >= N \/ raw.i + raw.size > N)
            /\ (pc = "rbv_sub") <=> (raw.i < N /\ raw.size >= 1 /\ raw.i + raw.size <= N)
            /\ (pc = "rbv_sub") =>
                  /\ raw.sub = DirectRbv(w)
                  /\ raw.sub = RawBitVector_from_bit_string(
                                   [k \in 1..raw.size |-> IF w[k] THEN "1" ELSE "0"])
            /\ raw.rbv = DirectRbv(src.bits)

\* copy_sub(1, 9) of a vector of 10 bits: an unaligned start, two turns of
\* the loop, the second byte of the copy made of the original's last bit.
C26_Witness ==
    /\ op = "copy_sub"
    /\ pc = "rbv_sub"
    /\ raw.i = 1
    /\ raw.size = 9
    /\ Len(src.bits) = 10
    /\ src.bits[10]
    /\ src.bits[1]
    /\ ~src.bits[2]
    /\ raw.sub.byte_vec[2] = 128
    /\ raw.sub.last_byte_len = 1

(***************************************************************************)
(* The popcount table.                                                     *)
(***************************************************************************)
\* Bit p (0 the least significant) of a u64 held as four words.
U64Bit(x, p) == (x[4 - (p \div 16)] \div Pow2(p % 16)) % 2 = 1

\* The number of 1-bits of x, bit by bit.
OnesOf(x) == Cardinality({ p \in 0..63 : U64Bit(x, p) })

\* x <= 2^b - 1: no bit of x at position b or above.
FitsWidth(x, b) == \A p \in 0..63 : U64Bit(x, p) => p < b

\* C27: PopcountTable::new(b) succeeds for every bit width b in [1, 64] and
\* fails for b = 0 and b > 64; for a table of width b, popcount(x) is the
\* number of 1-bits of x for every x in [0, 2^b - 1], and popcount(x) fails
\* for every x > 2^b - 1 (2^b - 1 taken in 64-bit unsigned arithmetic).
\* The claim is about the code, so it is stated for the calls whose
\* allocation was not refused.
C27_PopcountTable ==
    /\ (op = "table_new" /\ table.alloc_ok) =>
          /\ (pc = "table") <=> (1 <= arg /\ arg <= 64)
          /\ (pc = "failed") <=> (arg = 0 \/ arg > 64)
    /\ (op = "table_popcount") =>
          /\ FitsWidth(arg, table.bit_length) => (res = Ok(OnesOf(arg)))
          /\ ~FitsWidth(arg, table.bit_length) => (res = Panic)

\* What holds: when the allocation is not refused, new(b) succeeds for b
\* in [1, 62] and fails for every other b but 64 (which succeeds without
\* overflow checks); popcount is as stated for every table made with a
\* width below 64.
PopcountTableBelow63 ==
    /\ (op = "table_new") =>
          /\ (table.alloc_ok /\ 1 <= arg /\ arg <= 62) => (pc = "table")
          /\ (pc = "table") => ((1 <= arg /\ arg <= 62) \/ (arg = 64 /\ ~table.overflow_checks))
          /\ (arg = 0 \/ arg = 63 \/ arg > 64) => (pc = "failed")
    /\ (op = "table_popcount" /\ table.bit_length # 64) =>
          /\ FitsWidth(arg, table.bit_length) => (res = Ok(OnesOf(arg)))
          /\ ~FitsWidth(arg, table.bit_length) => (res = Panic)

=============================================================================
